---- MODULE Spec2Model ----
(***************************************************************************)
(* Model of uprintf.h (Ferki-git-creator/Uprintf): the custom handler      *)
(* table, the format engine (u_parse_format / u_vprintf) and the buffer    *)
(* adapters.  Characters are their ASCII codes, a C string is the sequence *)
(* of its characters without the terminating NUL, a pointer is 0 (NULL) or *)
(* a positive identifier.                                                  *)
(***************************************************************************)
EXTENDS Integers, Sequences, FiniteSets, TLC

\* ------------------------------------------------------------------------
\* Characters
\* ------------------------------------------------------------------------

\* The string terminator, also the mark of an empty handler slot.
NUL == 0

\* The null pointer.
NULL == 0

\* ------------------------------------------------------------------------
\* Build-time configuration and bounds
\* ------------------------------------------------------------------------

\* UPRINTF_MAX_HANDLERS is a build-time setting (#ifndef, default 16); the
\* table is modelled at a reduced size so that the full table is reachable.
UPRINTF_MAX_HANDLERS == 3

UPRINTF_BUFFER_SIZE == 32

Slots == 0..(UPRINTF_MAX_HANDLERS - 1)

\* Specifier characters handed to register / unregister: NUL, the built-in
\* 'd', and enough other letters ('K', 'L', ...) to fill the table with
\* specifiers different from a further one.
RegChars == {NUL, 100 (* 'd' *)} \cup (75 (* 'K' *) .. (75 (* 'K' *) + UPRINTF_MAX_HANDLERS - 1))

\* Format flags (bit values; a flag word is modelled as the set of its bits).
U_FLAG_LEFT_ALIGN == 1

U_FLAG_FORCE_SIGN == 2

U_FLAG_SPACE_SIGN == 4

U_FLAG_ZERO_PAD == 8

U_FLAG_ALT_FORM == 16

U_FLAG_WIDTH_ARG == 64

U_FLAG_PRECISION_ARG == 128

\* ------------------------------------------------------------------------
\* Small helpers
\* ------------------------------------------------------------------------

MinOf(S) == CHOOSE i \in S : \A j \in S : i <= j

Min(a, b) == IF a <= b THEN a ELSE b

Max(a, b) == IF a >= b THEN a ELSE b

\* count copies of character c (u_output_repeat: nothing when count <= 0).
u_output_repeat(c, count) == [k \in 1..Max(count, 0) |-> c]

\* str[p] of a NUL-terminated string, p counted from 1.
CharAt(fmt, p) == IF p >= 1 /\ p <= Len(fmt) THEN fmt[p] ELSE NUL

\* ------------------------------------------------------------------------
\* 64-bit integers
\* ------------------------------------------------------------------------
\* A 64-bit word is the tuple of its four 16-bit limbs, most significant
\* first; it stands for a uint64_t, or for an int64_t in two's complement.

Limb == 65536

HalfLimb == 32768

Byte == 256

\* The 64-bit word of a small integer v (sign-extended).
U64(v) ==
    LET ext == IF v < 0 THEN Limb - 1 ELSE 0
    IN  <<ext, ext, (v \div Limb) % Limb, v % Limb>>

U64IsZero(x) == x = <<0, 0, 0, 0>>

\* value < 0 for an int64_t.
U64IsNeg(x) == x[1] >= HalfLimb

\* -value in 64 bits (wraps for the minimum value).
U64Neg(x) ==
    LET n4 == (Limb - 1 - x[4]) + 1
        n3 == (Limb - 1 - x[3]) + (n4 \div Limb)
        n2 == (Limb - 1 - x[2]) + (n3 \div Limb)
        n1 == (Limb - 1 - x[1]) + (n2 \div Limb)
    IN  <<n1 % Limb, n2 % Limb, n3 % Limb, n4 % Limb>>

\* value / base and value % base for an unsigned 64-bit value.
U64DivMod(x, base) ==
    LET t1 == x[1]
        t2 == (t1 % base) * Limb + x[2]
        t3 == (t2 % base) * Limb + x[3]
        t4 == (t3 % base) * Limb + x[4]
    IN  [q |-> <<t1 \div base, t2 \div base, t3 \div base, t4 \div base>>,
         r |-> t4 % base]

\* Conversions to the narrower integer types, widened back to 64 bits.
ToUChar(x) == <<0, 0, 0, x[4] % Byte>>

ToUShort(x) == <<0, 0, 0, x[4]>>

ToUInt(x) == <<0, 0, x[3], x[4]>>

ToSChar(x) == U64(IF x[4] % Byte >= Byte \div 2 THEN (x[4] % Byte) - Byte ELSE x[4] % Byte)

ToShort(x) == U64(IF x[4] >= HalfLimb THEN x[4] - Limb ELSE x[4])

ToInt(x) == LET ext == IF x[3] >= HalfLimb THEN Limb - 1 ELSE 0 IN <<ext, ext, x[3], x[4]>>

\* The value of an int as a number (width and precision arguments).
IntValue(x) == IF x[3] >= HalfLimb THEN (x[3] - Limb) * Limb + x[4] ELSE x[3] * Limb + x[4]

\* ------------------------------------------------------------------------
\* Conversion primitives
\* ------------------------------------------------------------------------

u_strlen(str) == Len(str)

u_strrev(str) == [k \in 1..Len(str) |-> str[Len(str) + 1 - k]]

DigitChar(digit, uppercase) ==
    IF digit < 10 THEN 48 (* '0' *) + digit
    ELSE (IF uppercase THEN 65 (* 'A' *) ELSE 97 (* 'a' *)) + digit - 10

\* The do-while loop of u_utoa: the digits, least significant first.
\* UtoaDigit is one iteration, dm being value / base and value % base.
RECURSIVE UtoaLoop(_, _, _)
RECURSIVE UtoaDigit(_, _, _)
UtoaDigit(dm, base, uppercase) ==
    IF U64IsZero(dm.q) THEN <<DigitChar(dm.r, uppercase)>>
    ELSE <<DigitChar(dm.r, uppercase)>> \o UtoaLoop(dm.q, base, uppercase)

UtoaLoop(value, base, uppercase) == UtoaDigit(U64DivMod(value, base), base, uppercase)

u_utoa(value, base, uppercase) ==
    IF base < 2 \/ base > 36 THEN <<>>
    ELSE u_strrev(UtoaLoop(value, base, uppercase))

u_itoa(value, base, uppercase) ==
    IF base < 2 \/ base > 36 THEN <<>>
    ELSE (IF U64IsNeg(value) /\ base = 10 THEN <<45 (* '-' *)>> ELSE <<>>)
         \o u_utoa(IF U64IsNeg(value) /\ base = 10 THEN U64Neg(value) ELSE value,
                   base, uppercase)

\* A double is a record: kind is "nan", "inf" or "fin"; neg its sign; for a
\* finite value int is the integer part of the magnitude (a 64-bit word) and
\* frac the decimal digits of its fractional part (exact decimal arithmetic
\* stands for the double arithmetic of the code).

\* The fractional digits after "value += rounding": digit k of the sum and
\* whether the sum carried into the units (value >= 1).
FracDigit(frac, k) == IF k >= 1 /\ k <= Len(frac) THEN frac[k] ELSE 0

RoundCarry(frac, precision, k) ==
    /\ FracDigit(frac, precision + 1) >= 5
    /\ \A j \in (k + 1)..precision : FracDigit(frac, j) = 9

RoundedDigit(frac, precision, k) ==
    IF k > precision + 1 THEN FracDigit(frac, k)
    ELSE IF k = precision + 1 THEN (FracDigit(frac, k) + 5) % 10
    ELSE (FracDigit(frac, k) + (IF RoundCarry(frac, precision, k) THEN 1 ELSE 0)) % 10

\* The digit loop of u_ftoa without its overflow guard.
RECURSIVE FtoaDigits_NoBreak(_, _, _, _)
FtoaDigits_NoBreak(frac, precision, i, used) ==
    IF i > precision THEN <<>>
    ELSE <<48 (* '0' *) + RoundedDigit(frac, precision, i)
             + (IF i = 1 /\ RoundCarry(frac, precision, 0) THEN 10 ELSE 0)>>
         \o FtoaDigits_NoBreak(frac, precision, i + 1, used + 1)

\* The digit loop of u_ftoa from iteration i on; used is ptr - str.
RECURSIVE FtoaDigits(_, _, _, _)
FtoaDigits(frac, precision, i, used) ==
    IF i > precision THEN <<>>
    ELSE LET digit == RoundedDigit(frac, precision, i)
                      + (IF i = 1 /\ RoundCarry(frac, precision, 0) THEN 10 ELSE 0)
         IN  <<48 (* '0' *) + digit>> \o
             (IF used + 1 >= UPRINTF_BUFFER_SIZE - 1 THEN <<>>
              ELSE FtoaDigits(frac, precision, i + 1, used + 1))

\* The precision u_ftoa works with: 6 when negative, capped to the buffer.
FtoaPrecision(precision0) ==
    IF precision0 < 0 THEN 6
    ELSE IF precision0 > UPRINTF_BUFFER_SIZE - 16 THEN UPRINTF_BUFFER_SIZE - 16
    ELSE precision0

\* value < 0 for a finite double.
FtoaNegative(value) ==
    value.neg /\ (~U64IsZero(value.int) \/ \E k \in 1..Len(value.frac) : value.frac[k] # 0)

\* The decimal point and the fractional digits after the integer part head.
FtoaFraction(head, frac, precision, decimal_point) ==
    IF precision > 0
    THEN head \o <<decimal_point>> \o FtoaDigits(frac, precision, 1, Len(head) + 1)
    ELSE head

u_ftoa(value, precision0, decimal_point) ==
    IF value.kind = "nan" THEN <<110, 97, 110>> (* "nan" *)
    ELSE IF value.kind = "inf" /\ ~value.neg THEN <<105, 110, 102>> (* "inf" *)
    ELSE IF value.kind = "inf" THEN <<45, 105, 110, 102>> (* "-inf" *)
    ELSE FtoaFraction((IF FtoaNegative(value) THEN <<45 (* '-' *)>> ELSE <<>>)
                          \o u_itoa(value.int, 10, FALSE),
                      value.frac, FtoaPrecision(precision0), decimal_point)

\* The first characters of str, at most max_len of them (all when max_len < 0),
\* as u_output_str hands them to the sink.
u_output_str(str, max_len) ==
    IF max_len < 0 THEN str ELSE SubSeq(str, 1, Min(max_len, Len(str)))

NullText == <<40, 110, 117, 108, 108, 41>> (* "(null)" *)

\* ------------------------------------------------------------------------
\* Custom handler table
\* ------------------------------------------------------------------------

EmptySlot == [specifier |-> NUL, handler |-> NULL]

EmptyTable == [i \in Slots |-> EmptySlot]

\* Register that looks for an empty slot only and never for the slot that
\* already holds the specifier.
Register_EmptyOnly(tab, specifier, handler) ==
    LET cand == {i \in Slots : tab[i].specifier = NUL}
    IN  IF handler = NULL THEN [ret |-> -1, tab |-> tab]
        ELSE IF cand = {} THEN [ret |-> -1, tab |-> tab]
        ELSE [ret |-> 0,
              tab |-> [tab EXCEPT ![MinOf(cand)] =
                          [specifier |-> specifier, handler |-> handler]]]

\* Register whose loop stops one slot early.
Register_ShortLoop(tab, specifier, handler) ==
    LET cand == {i \in Slots \ {UPRINTF_MAX_HANDLERS - 1} :
                    tab[i].specifier = NUL \/ tab[i].specifier = specifier}
    IN  IF handler = NULL THEN [ret |-> -1, tab |-> tab]
        ELSE IF cand = {} THEN [ret |-> -1, tab |-> tab]
        ELSE [ret |-> 0,
              tab |-> [tab EXCEPT ![MinOf(cand)] =
                          [specifier |-> specifier, handler |-> handler]]]

Register(tab, specifier, handler) ==
    LET cand == {i \in Slots : tab[i].specifier = NUL \/ tab[i].specifier = specifier}
    IN  IF handler = NULL THEN [ret |-> -1, tab |-> tab]
        ELSE IF cand = {} THEN [ret |-> -1, tab |-> tab]
        ELSE [ret |-> 0,
              tab |-> [tab EXCEPT ![MinOf(cand)] =
                          [specifier |-> specifier, handler |-> handler]]]

Unregister(tab, specifier) ==
    LET cand == {i \in Slots : tab[i].specifier = specifier}
    IN  IF cand = {} THEN [ret |-> -1, tab |-> tab]
        ELSE [ret |-> 0, tab |-> [tab EXCEPT ![MinOf(cand)] = EmptySlot]]

\* The lookup loop of u_parse_format: the handler of the first slot that
\* holds the specifier with a non-null handler, NULL when there is none.
FindHandler(tab, specifier) ==
    LET cand == {i \in Slots : tab[i].specifier = specifier /\ tab[i].handler # NULL}
    IN  IF cand = {} THEN NULL ELSE tab[MinOf(cand)].handler

\* ------------------------------------------------------------------------
\* Handler functions owned by the callers
\* ------------------------------------------------------------------------
\* 1: custom_handler of the test suite: emits "CUSTOM", returns 6.
\* 2: a handler that reports an error: emits nothing, returns -1.
\* 3: a handler that takes one argument and one character of trailing
\*    format text (a closing delimiter), emits "T", returns 1.

HandlerOut(h) ==
    IF h = 1 THEN <<67, 85, 83, 84, 79, 77>> (* "CUSTOM" *)
    ELSE IF h = 3 THEN <<84>> (* "T" *)
    ELSE <<>>

HandlerRet(h) == IF h = 1 THEN 6 ELSE IF h = 3 THEN 1 ELSE -1

\* Format characters the handler consumes after the specifier.
HandlerEat(h, fmt, p) == IF h = 3 /\ CharAt(fmt, p) # NUL THEN 1 ELSE 0

\* Arguments the handler consumes.
HandlerTake(h) == IF h = 3 THEN 1 ELSE 0

\* ------------------------------------------------------------------------
\* Format engine
\* ------------------------------------------------------------------------
\* An argument of the variadic list is a record: i is its value when it is
\* read as an integer or a pointer (a 64-bit word), s the string it points to
\* when it is read as a string, snull whether that string pointer is NULL,
\* f its value when it is read as a double.
\* The list is read from position ap on (counted from 1).

ZeroFloat == [kind |-> "fin", neg |-> FALSE, int |-> U64(0), frac |-> <<>>]

ZeroArg == [i |-> U64(0), s |-> <<>>, snull |-> TRUE, f |-> ZeroFloat]

va_arg(args, ap) == IF ap >= 1 /\ ap <= Len(args) THEN args[ap] ELSE ZeroArg

IsDigit(c) == c >= 48 (* '0' *) /\ c <= 57 (* '9' *)

\* The flag loop: the position after the flags and the flags seen.
RECURSIVE ParseFlags(_, _, _)
ParseFlags(fmt, p, flags) ==
    LET c == CharAt(fmt, p)
    IN  IF c = 45 (* '-' *) THEN ParseFlags(fmt, p + 1, flags \cup {U_FLAG_LEFT_ALIGN})
        ELSE IF c = 43 (* '+' *) THEN ParseFlags(fmt, p + 1, flags \cup {U_FLAG_FORCE_SIGN})
        ELSE IF c = 32 (* ' ' *) THEN ParseFlags(fmt, p + 1, flags \cup {U_FLAG_SPACE_SIGN})
        ELSE IF c = 48 (* '0' *) THEN ParseFlags(fmt, p + 1, flags \cup {U_FLAG_ZERO_PAD})
        ELSE IF c = 35 (* '#' *) THEN ParseFlags(fmt, p + 1, flags \cup {U_FLAG_ALT_FORM})
        ELSE [pos |-> p, flags |-> flags]

\* The digit loops of width and precision.
RECURSIVE ParseDigits(_, _, _)
ParseDigits(fmt, p, acc) ==
    IF IsDigit(CharAt(fmt, p))
    THEN ParseDigits(fmt, p + 1, acc * 10 + (CharAt(fmt, p) - 48 (* '0' *)))
    ELSE [pos |-> p, val |-> acc]

\* ParseWidth that leaves an absent width at 0 instead of -1.
ParseWidth_ZeroKept(fmt, p, args, ap, flags) ==
    IF CharAt(fmt, p) = 42 (* '*' *)
    THEN [pos |-> p + 1, width |-> IntValue(va_arg(args, ap).i), ap |-> ap + 1,
          flags |-> flags \cup {U_FLAG_WIDTH_ARG}]
    ELSE LET n == ParseDigits(fmt, p, 0)
         IN  [pos |-> n.pos, width |-> n.val, ap |-> ap, flags |-> flags]

ParseWidth(fmt, p, args, ap, flags) ==
    IF CharAt(fmt, p) = 42 (* '*' *)
    THEN [pos |-> p + 1, width |-> IntValue(va_arg(args, ap).i), ap |-> ap + 1,
          flags |-> flags \cup {U_FLAG_WIDTH_ARG}]
    ELSE LET n == ParseDigits(fmt, p, 0)
         IN  [pos |-> n.pos, width |-> IF n.val = 0 THEN -1 ELSE n.val, ap |-> ap,
              flags |-> flags]

ParsePrecision(fmt, p, args, ap, flags) ==
    IF CharAt(fmt, p) = 46 (* '.' *)
    THEN IF CharAt(fmt, p + 1) = 42 (* '*' *)
         THEN [pos |-> p + 2, precision |-> IntValue(va_arg(args, ap).i), ap |-> ap + 1,
               flags |-> flags \cup {U_FLAG_PRECISION_ARG}]
         ELSE LET n == ParseDigits(fmt, p + 1, 0)
              IN  [pos |-> n.pos, precision |-> n.val, ap |-> ap, flags |-> flags]
    ELSE [pos |-> p, precision |-> -1, ap |-> ap, flags |-> flags]

ParseLength(fmt, p) ==
    LET c == CharAt(fmt, p)
    IN  IF c = 104 (* 'h' *)
        THEN IF CharAt(fmt, p + 1) = 104 (* 'h' *)
             THEN [pos |-> p + 2, length_modifier |-> -2]
             ELSE [pos |-> p + 1, length_modifier |-> -1]
        ELSE IF c = 108 (* 'l' *)
        THEN IF CharAt(fmt, p + 1) = 108 (* 'l' *)
             THEN [pos |-> p + 2, length_modifier |-> 2]
             ELSE [pos |-> p + 1, length_modifier |-> 1]
        ELSE IF c = 122 (* 'z' *) THEN [pos |-> p + 1, length_modifier |-> 3]
        ELSE IF c = 116 (* 't' *) THEN [pos |-> p + 1, length_modifier |-> 4]
        ELSE IF c = 106 (* 'j' *) THEN [pos |-> p + 1, length_modifier |-> 5]
        ELSE [pos |-> p, length_modifier |-> 0]

\* The argument of d / i as an int64_t, by length modifier.
SignedArg(length_modifier, a) ==
    IF length_modifier = -2 THEN ToSChar(ToInt(a.i))
    ELSE IF length_modifier = -1 THEN ToShort(ToInt(a.i))
    ELSE IF length_modifier \in {1, 2, 5} THEN a.i
    ELSE ToInt(a.i)

\* The argument of u / o / x / X as a uint64_t, by length modifier.
UnsignedArg(length_modifier, a) ==
    IF length_modifier = -2 THEN ToUChar(ToUInt(a.i))
    ELSE IF length_modifier = -1 THEN ToUShort(ToUInt(a.i))
    ELSE IF length_modifier \in {1, 2, 3, 5} THEN a.i
    ELSE ToUInt(a.i)

\* The shared numeric path: padding, sign and digits of a converted number.
\* sign_len
SignLen(sign, flags) ==
    IF sign THEN 1
    ELSE IF U_FLAG_FORCE_SIGN \in flags THEN 1
    ELSE IF U_FLAG_SPACE_SIGN \in flags THEN 1
    ELSE 0

\* zero_padding from the precision.
PrecisionZeroes(num_digits, precision) ==
    IF precision > num_digits THEN precision - num_digits ELSE 0

\* padding = width > total_len ? width - total_len : 0
WidthPadding(width, total_len) == IF width > total_len THEN width - total_len ELSE 0

\* The zero flag turns the padding into zeroes.
ZeroPadded(flags, precision) ==
    U_FLAG_ZERO_PAD \in flags /\ U_FLAG_LEFT_ALIGN \notin flags /\ precision < 0

\* The sign character the numeric path emits itself.
SignChars(sign, flags) ==
    IF sign THEN <<>>
    ELSE IF U_FLAG_FORCE_SIGN \in flags THEN <<43 (* '+' *)>>
    ELSE IF U_FLAG_SPACE_SIGN \in flags THEN <<32 (* ' ' *)>>
    ELSE <<>>

\* The output calls of the numeric path, padding and zero_padding settled.
NumericOutput(buffer, sign, flags, padding, zero_padding) ==
    [out |-> (IF U_FLAG_LEFT_ALIGN \notin flags
              THEN u_output_repeat(32 (* ' ' *), padding) ELSE <<>>)
             \o SignChars(sign, flags)
             \o u_output_repeat(48 (* '0' *), zero_padding)
             \o u_output_str(buffer, -1)
             \o (IF U_FLAG_LEFT_ALIGN \in flags
                 THEN u_output_repeat(32 (* ' ' *), padding) ELSE <<>>),
     ret |-> padding + Len(SignChars(sign, flags)) + zero_padding + Len(buffer)]

\* zero_padding and padding as computed before the zero flag is looked at.
NumericPadding(buffer, sign, flags, precision, zero_padding, padding) ==
    NumericOutput(buffer, sign, flags,
                  IF ZeroPadded(flags, precision) THEN 0 ELSE padding,
                  IF ZeroPadded(flags, precision) THEN zero_padding + padding
                  ELSE zero_padding)

NumericPath(buffer, sign, flags, width, precision) ==
    NumericPadding(buffer, sign, flags, precision,
                   PrecisionZeroes(Len(buffer), precision),
                   WidthPadding(width, Len(buffer) + SignLen(sign, flags)
                                       + PrecisionZeroes(Len(buffer), precision)))

FloatIsNeg(value) ==
    /\ value.neg
    /\ value.kind # "nan"
    /\ (value.kind = "inf" \/ ~U64IsZero(value.int)
        \/ \E k \in 1..Len(value.frac) : value.frac[k] # 0)

\* What one directive does: r.out the characters handed to the sink, r.ret
\* the returned count, r.pos and r.ap the format and argument cursors
\* afterwards, r.invoked the handler calls made, r.stores the values written
\* through %n pointers.
Result(ret, out, pos, ap) ==
    [ret |-> ret, out |-> out, pos |-> pos, ap |-> ap, invoked |-> <<>>, stores |-> <<>>]

\* The directive of a converted number, n being what the numeric path did.
NumberResult(n, pos, ap) == Result(n.ret, n.out, pos, ap + 1)

\* The numeric path applied to a converted argument.
Number(buffer, sign, flags, width, precision, pos, ap) ==
    NumberResult(NumericPath(buffer, sign, flags, width, precision), pos, ap)

\* Prefixed that puts the prefix whatever the flag and the value.
Prefixed_Always(wanted, prefix, digits, room) == prefix \o digits

\* The prefix of the alternate form and of pointers, put in front of the
\* digits when wanted and when the buffer has room for it.
Prefixed(wanted, prefix, digits, room) ==
    IF wanted /\ Len(digits) < room THEN prefix \o digits ELSE digits

\* case 'd' / 'i'
CaseSigned(a, flags, width, precision, length_modifier, pos, ap) ==
    Number(u_itoa(SignedArg(length_modifier, a), 10, FALSE),
           U64IsNeg(SignedArg(length_modifier, a)), flags, width, precision, pos, ap)

\* case 'u'
CaseUnsigned(a, flags, width, precision, length_modifier, pos, ap) ==
    Number(u_utoa(UnsignedArg(length_modifier, a), 10, FALSE), FALSE,
           flags, width, precision, pos, ap)

\* case 'o'
CaseOctal(a, flags, width, precision, length_modifier, pos, ap) ==
    Number(Prefixed(U_FLAG_ALT_FORM \in flags
                        /\ ~U64IsZero(UnsignedArg(length_modifier, a)),
                    <<48 (* '0' *)>>,
                    u_utoa(UnsignedArg(length_modifier, a), 8, FALSE),
                    UPRINTF_BUFFER_SIZE - 1),
           FALSE, flags, width, precision, pos, ap)

\* case 'x' / 'X'
CaseHex(specifier, a, flags, width, precision, length_modifier, pos, ap) ==
    Number(Prefixed(U_FLAG_ALT_FORM \in flags
                        /\ ~U64IsZero(UnsignedArg(length_modifier, a)),
                    <<48 (* '0' *),
                      IF specifier = 88 (* 'X' *) THEN 88 (* 'X' *) ELSE 120 (* 'x' *)>>,
                    u_utoa(UnsignedArg(length_modifier, a), 16, specifier = 88 (* 'X' *)),
                    UPRINTF_BUFFER_SIZE - 2),
           FALSE, flags, width, precision, pos, ap)

\* case 'f' / 'F' that does not look at the float support switch.
CaseFloat_AlwaysOn(float_support, decimal_point, specifier, a, flags, width, precision, pos, ap) ==
    Number(u_ftoa(a.f, precision, decimal_point), FloatIsNeg(a.f),
           flags, width, precision, pos, ap)

\* case 'f' / 'F'
CaseFloat(float_support, decimal_point, specifier, a, flags, width, precision, pos, ap) ==
    IF ~float_support
    THEN Result(2, <<37 (* '%' *), specifier>>, pos, ap)
    ELSE Number(u_ftoa(a.f, precision, decimal_point), FloatIsNeg(a.f),
                flags, width, precision, pos, ap)

\* case 'c'
CaseChar(a, flags, width, pos, ap) ==
    LET c == a.i[4] % Byte
        padding == IF width > 1 THEN width - 1 ELSE 0
        pad == u_output_repeat(32 (* ' ' *), padding)
    IN  Result(padding + 1,
               IF U_FLAG_LEFT_ALIGN \in flags THEN <<c>> \o pad ELSE pad \o <<c>>,
               pos, ap + 1)

\* case 's' that never truncates to the precision.
CaseString_Whole(a, flags, width, precision, pos, ap) ==
    LET str == IF a.snull THEN NullText ELSE a.s
        str_len == IF a.snull THEN 6 ELSE u_strlen(a.s)
        padding == IF width > str_len THEN width - str_len ELSE 0
        pad == u_output_repeat(32 (* ' ' *), padding)
        text == u_output_str(str, str_len)
    IN  Result(padding + str_len,
               IF U_FLAG_LEFT_ALIGN \in flags THEN text \o pad ELSE pad \o text,
               pos, ap + 1)

\* case 's'
CaseString(a, flags, width, precision, pos, ap) ==
    LET str == IF a.snull THEN NullText ELSE a.s
        len0 == IF a.snull THEN 6 ELSE u_strlen(a.s)
        str_len == IF precision >= 0 /\ precision < len0 THEN precision ELSE len0
        padding == IF width > str_len THEN width - str_len ELSE 0
        pad == u_output_repeat(32 (* ' ' *), padding)
        text == u_output_str(str, str_len)
    IN  Result(padding + str_len,
               IF U_FLAG_LEFT_ALIGN \in flags THEN text \o pad ELSE pad \o text,
               pos, ap + 1)

\* case 'p'
CasePointer(a, flags, width, precision, pos, ap) ==
    Number(Prefixed(TRUE, <<48 (* '0' *), 120 (* 'x' *)>>, u_utoa(a.i, 16, FALSE),
                    UPRINTF_BUFFER_SIZE - 2),
           FALSE, flags, width, precision, pos, ap)

\* case '%' that hands the character to the sink without counting it.
CasePercent_Uncounted(pos, ap) == Result(0, <<37 (* '%' *)>>, pos, ap)

\* case '%'
CasePercent(pos, ap) == Result(1, <<37 (* '%' *)>>, pos, ap)

\* case 'n': chars_written is the count of this directive, still 0 here.
CaseCount(a, pos, ap) ==
    [Result(0, <<>>, pos, ap + 1) EXCEPT
        !.stores = IF a.i # U64(NULL) THEN <<[ptr |-> a.i, value |-> 0]>> ELSE <<>>]

\* default: unknown specifier
CaseDefault(specifier, pos, ap) == Result(2, <<37 (* '%' *), specifier>>, pos, ap)

\* NoSpecifier that reports a hard failure instead of echoing the text.
NoSpecifier_Fails(fmt, p0, pos, ap) == Result(-1, <<>>, pos, ap)

\* The format string ended before a specifier: '%' and the text seen so far.
NoSpecifier(fmt, p0, pos, ap) ==
    Result(1 + (pos - p0),
           <<37 (* '%' *)>> \o u_output_str(SubSeq(fmt, p0, Len(fmt)), pos - p0),
           pos, ap)

\* A handler call on copies of the cursors: what the handler does to them is
\* lost.
CallHandler_Copies(h, specifier, fmt, pos, ap, flags, width, precision) ==
    [Result(HandlerRet(h), HandlerOut(h), pos, ap) EXCEPT
        !.invoked = <<[handler |-> h, specifier |-> specifier, pos |-> pos, ap |-> ap,
                       width |-> width, precision |-> precision, flags |-> flags]>>]

\* The call of a registered handler, with the cursors just past the specifier.
CallHandler(h, specifier, fmt, pos, ap, flags, width, precision) ==
    [Result(HandlerRet(h), HandlerOut(h), pos + HandlerEat(h, fmt, pos),
            ap + HandlerTake(h)) EXCEPT
        !.invoked = <<[handler |-> h, specifier |-> specifier, pos |-> pos, ap |-> ap,
                       width |-> width, precision |-> precision, flags |-> flags]>>]

\* The switch over the built-in specifiers.
Builtin(float_support, decimal_point, specifier, pos, args, ap, flags, width, precision, length_modifier) ==
    LET a == va_arg(args, ap)
    IN  IF specifier \in {100 (* 'd' *), 105 (* 'i' *)}
        THEN CaseSigned(a, flags, width, precision, length_modifier, pos, ap)
        ELSE IF specifier = 117 (* 'u' *)
        THEN CaseUnsigned(a, flags, width, precision, length_modifier, pos, ap)
        ELSE IF specifier = 111 (* 'o' *)
        THEN CaseOctal(a, flags, width, precision, length_modifier, pos, ap)
        ELSE IF specifier \in {120 (* 'x' *), 88 (* 'X' *)}
        THEN CaseHex(specifier, a, flags, width, precision, length_modifier, pos, ap)
        ELSE IF specifier \in {102 (* 'f' *), 70 (* 'F' *)}
        THEN CaseFloat(float_support, decimal_point, specifier, a, flags, width,
                       precision, pos, ap)
        ELSE IF specifier = 99 (* 'c' *) THEN CaseChar(a, flags, width, pos, ap)
        ELSE IF specifier = 115 (* 's' *) THEN CaseString(a, flags, width, precision, pos, ap)
        ELSE IF specifier = 112 (* 'p' *) THEN CasePointer(a, flags, width, precision, pos, ap)
        ELSE IF specifier = 37 (* '%' *) THEN CasePercent(pos, ap)
        ELSE IF specifier = 110 (* 'n' *) THEN CaseCount(a, pos, ap)
        ELSE CaseDefault(specifier, pos, ap)

\* The handler lookup and the switch: h is the handler found for the
\* specifier, P what the precision stage left, L what the length stage left.
Dispatch(tab, float_support, decimal_point, fmt, p0, args, width, P, L, specifier, h) ==
    IF specifier = NUL THEN NoSpecifier(fmt, p0, L.pos, P.ap)
    ELSE IF h # NULL
    THEN CallHandler(h, specifier, fmt, L.pos + 1, P.ap, P.flags, width, P.precision)
    ELSE Builtin(float_support, decimal_point, specifier, L.pos + 1, args, P.ap,
                 P.flags, width, P.precision, L.length_modifier)

\* After the length modifier: the specifier character is read.
AfterLength(tab, float_support, decimal_point, fmt, p0, args, width, P, L) ==
    Dispatch(tab, float_support, decimal_point, fmt, p0, args, width, P, L,
             CharAt(fmt, L.pos), FindHandler(tab, CharAt(fmt, L.pos)))

\* After the precision: the length modifier is parsed.
AfterPrecision(tab, float_support, decimal_point, fmt, p0, args, width, P) ==
    AfterLength(tab, float_support, decimal_point, fmt, p0, args, width, P,
                ParseLength(fmt, P.pos))

\* After the width: the precision is parsed.
AfterWidth(tab, float_support, decimal_point, fmt, p0, args, W) ==
    AfterPrecision(tab, float_support, decimal_point, fmt, p0, args, W.width,
                   ParsePrecision(fmt, W.pos, args, W.ap, W.flags))

\* After the flags: the width is parsed.
AfterFlags(tab, float_support, decimal_point, fmt, p0, args, ap0, F) ==
    AfterWidth(tab, float_support, decimal_point, fmt, p0, args,
               ParseWidth(fmt, F.pos, args, ap0, F.flags))

\* One directive, from the character after '%' (position p0) on.
u_parse_format(tab, float_support, decimal_point, fmt, p0, args, ap0) ==
    AfterFlags(tab, float_support, decimal_point, fmt, p0, args, ap0,
               ParseFlags(fmt, p0, {}))

\* chars_written and the cursors of the call after a directive that did r.
Accumulate(acc, r) ==
    [ret |-> IF r.ret < 0 THEN r.ret ELSE acc.ret + r.ret,
     out |-> acc.out \o r.out, pos |-> r.pos, ap |-> r.ap,
     invoked |-> acc.invoked \o r.invoked, stores |-> acc.stores \o r.stores]

\* The scan loop of u_vprintf from position p on; acc is what the call has
\* done so far (acc.ret is chars_written).  AfterDirective is the loop after
\* a directive: done is acc with the directive accumulated, a negative
\* done.ret being the directive's result, which ends the call.
RECURSIVE VprintfLoop(_, _, _, _, _, _, _)
RECURSIVE AfterDirective(_, _, _, _, _, _)
AfterDirective(tab, float_support, decimal_point, fmt, args, done) ==
    IF done.ret < 0 THEN done
    ELSE VprintfLoop(tab, float_support, decimal_point, fmt, done.pos, args, done)

VprintfLoop(tab, float_support, decimal_point, fmt, p, args, acc) ==
    IF CharAt(fmt, p) = NUL THEN [acc EXCEPT !.pos = p]
    ELSE IF CharAt(fmt, p) # 37 (* '%' *)
    THEN VprintfLoop(tab, float_support, decimal_point, fmt, p + 1, args,
                     [acc EXCEPT !.out = @ \o <<CharAt(fmt, p)>>, !.ret = @ + 1])
    ELSE IF CharAt(fmt, p + 1) = NUL THEN [acc EXCEPT !.pos = p + 1]
    ELSE AfterDirective(tab, float_support, decimal_point, fmt, args,
                        Accumulate(acc, u_parse_format(tab, float_support, decimal_point,
                                                       fmt, p + 1, args, acc.ap)))

\* u_vprintf with a non-null sink and format string.
Vprintf(tab, float_support, decimal_point, fmt, args) ==
    VprintfLoop(tab, float_support, decimal_point, fmt, 1, args, Result(0, <<>>, 1, 1))

\* ------------------------------------------------------------------------
\* Buffer adapters
\* ------------------------------------------------------------------------

\* The content of a buffer cell that was never written.
Junk == -1

\* bounded_output_cb that stores while pos < size.
bounded_output_cb_OffByOne(c, bctx) ==
    IF bctx.pos < bctx.size
    THEN [bctx EXCEPT !.buffer = [k \in DOMAIN bctx.buffer \cup {bctx.pos} |->
                                     IF k = bctx.pos THEN c ELSE bctx.buffer[k]],
                      !.writes = @ \cup {bctx.pos},
                      !.pos = @ + 1]
    ELSE bctx

\* bounded_output_cb on the context [buffer, size, pos]; writes collects the
\* indices written (size - 1 is computed in size_t and wraps for size 0).
bounded_output_cb(c, bctx) ==
    IF bctx.size = 0 \/ bctx.pos < bctx.size - 1
    THEN [bctx EXCEPT !.buffer = [k \in DOMAIN bctx.buffer \cup {bctx.pos} |->
                                     IF k = bctx.pos THEN c ELSE bctx.buffer[k]],
                      !.writes = @ \cup {bctx.pos},
                      !.pos = @ + 1]
    ELSE bctx

\* The sink calls of one format call, applied in order to a bounded context:
\* the characters out[lo..hi], those of the first half before those of the
\* second.  EmitNext emits out[lo..hi] once the calls before them have
\* returned the context bctx (its pos is never negative).
RECURSIVE EmitBounded(_, _, _, _)
RECURSIVE EmitNext(_, _, _, _)
EmitNext(out, lo, hi, bctx) ==
    IF bctx.pos >= 0 THEN EmitBounded(out, lo, hi, bctx) ELSE bctx

EmitBounded(out, lo, hi, bctx) ==
    IF lo > hi THEN bctx
    ELSE IF lo = hi THEN bounded_output_cb(out[lo], bctx)
    ELSE EmitNext(out, ((lo + hi) \div 2) + 1, hi,
                  EmitBounded(out, lo, (lo + hi) \div 2, bctx))

\* The context u_snprintf starts with: no cell of the buffer written yet.
BoundedCtx(size) ==
    [buffer |-> [k \in 0..(size - 1) |-> Junk], size |-> size, pos |-> 0, writes |-> {}]

\* The end of u_snprintf that returns the count u_vprintf reports, as the C
\* library does.
SnprintfEnd_WouldBe(ctx, r) ==
    [ret |-> r.ret,
     buffer |-> [k \in DOMAIN ctx.buffer \cup {ctx.pos} |->
                    IF k = ctx.pos THEN NUL ELSE ctx.buffer[k]],
     writes |-> ctx.writes \cup {ctx.pos},
     ap |-> r.ap]

\* The end of u_snprintf: buffer[ctx.pos] = '\0'; return (int)ctx.pos; with
\* ctx the context after the format call and r what the format call did.
SnprintfEnd(ctx, r) ==
    [ret |-> ctx.pos,
     buffer |-> [k \in DOMAIN ctx.buffer \cup {ctx.pos} |->
                    IF k = ctx.pos THEN NUL ELSE ctx.buffer[k]],
     writes |-> ctx.writes \cup {ctx.pos},
     ap |-> r.ap]

\* The sink calls of the format call r applied to the bounded context.
SnprintfRun(size, r) == SnprintfEnd(EmitBounded(r.out, 1, Len(r.out), BoundedCtx(size)), r)

\* u_snprintf on a non-null buffer of size cells (size >= 1) and a non-null
\* format string.
Snprintf(tab, float_support, decimal_point, size, fmt, args) ==
    SnprintfRun(size, Vprintf(tab, float_support, decimal_point, fmt, args))

\* ------------------------------------------------------------------------
\* Inputs
\* ------------------------------------------------------------------------

\* Longest generated format string.
MaxFmtLen == 3

\* Largest generated buffer capacity.
MaxSize == 3

RECURSIVE SeqsUpTo(_, _)
SeqsUpTo(S, n) ==
    IF n = 0 THEN {<<>>}
    ELSE LET shorter == SeqsUpTo(S, n - 1)
         IN  shorter \cup {Append(q, x) : q \in {r \in shorter : Len(r) = n - 1}, x \in S}

FmtAlphabet == {37 (* '%' *), 75 (* 'K' *), 100 (* 'd' *), 115 (* 's' *), 53 (* '5' *), 46 (* '.' *), 97 (* 'a' *)}

Hello == <<72, 101, 108, 108, 111, 44, 32, 37, 115, 33>> (* "Hello, %s!" *)

\* The format strings of the test suite and of the documentation that the
\* generated ones do not cover.
TestFmts ==
    { Hello,
      <<37, 45, 53, 46, 51, 75>> (* "%-5.3K" *),
      <<37, 42, 46, 42, 75, 37, 100>> (* "%*.*K%d" *),
      <<37, 48, 53, 100>> (* "%05d" *),
      <<37, 45, 53, 100>> (* "%-5d" *),
      <<37, 35, 120>> (* "%#x" *),
      <<37, 122>> (* "%z" *),
      <<37, 75, 97, 37, 100>> (* "%Ka%d" *) }

Fmts == SeqsUpTo(FmtAlphabet, MaxFmtLen) \cup TestFmts

\* The probes of the handler table: "%c" for every specifier character.
ProbeFmts == {<<37 (* '%' *), c>> : c \in RegChars \ {NUL}}

World == <<87, 111, 114, 108, 100>> (* "World" *)

IntArg(v) == [i |-> U64(v), s |-> <<>>, snull |-> TRUE, f |-> ZeroFloat]

StrArg(str) == [i |-> U64(1), s |-> str, snull |-> FALSE, f |-> ZeroFloat]

\* Argument lists: every argument can be read as an integer and as a string.
ArgLists ==
    { <<[StrArg(World) EXCEPT !.i = U64(42)], IntArg(3), IntArg(-7), IntArg(0)>>,
      <<IntArg(2748), [StrArg(<<97 (* 'a' *), 98 (* 'b' *)>>) EXCEPT !.i = U64(-42)], IntArg(5),
        IntArg(9)>> }

\* Sinks: the null pointer and a sink that records its calls.
Sinks == {NULL, 1}

\* ------------------------------------------------------------------------
\* State
\* ------------------------------------------------------------------------
\* handlers, float_support, decimal_point: the fields of u_state;
\* call: the API call in progress, its arguments and what it did; op is
\* "none" between calls (the library is single-threaded: one call at a time);
\* composed: the directive the caller has put together from the grammar to
\* build its next format string from (NoDirective when it has none).

\* default_output_cb, default_ctx: the default sink of u_state and its context;
\* hooks, processors: the output hooks and the stream processors of u_state,
\* in registration order (hook_count and processor_count are their lengths).

VARIABLES handlers, float_support, decimal_point, call, composed,
          default_output_cb, default_ctx, hooks, processors

\* The part of u_state the output goes through.
output_state == <<default_output_cb, default_ctx, hooks, processors>>

vars == <<handlers, float_support, decimal_point, call, composed, output_state>>

NoDirective == <<>>

Init ==
    /\ handlers = EmptyTable
    /\ float_support = TRUE
    /\ decimal_point = 46 (* '.' *)
    /\ call = [op |-> "none"]
    /\ composed = NoDirective
    /\ default_output_cb = NULL
    /\ default_ctx = NULL
    /\ hooks = <<>>
    /\ processors = <<>>

\* No call is in progress: the library is entered by one caller at a time.
Idle == call.op = "none"

u_register_format_handler(specifier, handler) ==
    LET r == Register(handlers, specifier, handler)
    IN  /\ Idle
        /\ handlers' = r.tab
        /\ call' = [op |-> "u_register_format_handler", specifier |-> specifier,
                    handler |-> handler, ret |-> r.ret]
        /\ UNCHANGED <<float_support, decimal_point, composed, output_state>>

u_unregister_format_handler(specifier) ==
    LET r == Unregister(handlers, specifier)
    IN  /\ Idle
        /\ handlers' = r.tab
        /\ call' = [op |-> "u_unregister_format_handler", specifier |-> specifier,
                    ret |-> r.ret]
        /\ UNCHANGED <<float_support, decimal_point, composed, output_state>>

\* The caller passes at least the arguments the call r consumes.
EnoughArgs(r, args) == r.ap <= Len(args) + 1

\* VprintfCall that checks the format pointer only.
VprintfCall_NoSinkCheck(output_cb, fmt_null, fmt, args) ==
    IF fmt_null
    THEN Result(-1, <<>>, 1, 1)
    ELSE Vprintf(handlers, float_support, decimal_point, fmt, args)

\* What u_vprintf does, null checks included (fmt_null: the format pointer is
\* NULL and fmt is not looked at).
VprintfCall(output_cb, fmt_null, fmt, args) ==
    IF output_cb = NULL \/ fmt_null
    THEN Result(-1, <<>>, 1, 1)
    ELSE Vprintf(handlers, float_support, decimal_point, fmt, args)

\* A format call op that did r: the state is left alone.
FormatCall(op, output_cb, fmt_null, fmt, args, r) ==
    /\ Idle
    /\ EnoughArgs(r, args)
    /\ call' = [op |-> op, output_cb |-> output_cb, fmt_null |-> fmt_null,
                fmt |-> fmt, args |-> args, ret |-> r.ret, out |-> r.out,
                pos |-> r.pos, ap |-> r.ap, invoked |-> r.invoked,
                stores |-> r.stores]
    /\ UNCHANGED <<handlers, float_support, decimal_point, composed, output_state>>

u_vprintf(output_cb, fmt_null, fmt, args) ==
    FormatCall("u_vprintf", output_cb, fmt_null, fmt, args,
               VprintfCall(output_cb, fmt_null, fmt, args))

u_printf(output_cb, fmt_null, fmt, args) ==
    FormatCall("u_printf", output_cb, fmt_null, fmt, args,
               IF output_cb = NULL \/ fmt_null
               THEN Result(-1, <<>>, 1, 1)
               ELSE VprintfCall(output_cb, fmt_null, fmt, args))

\* A bounded-buffer call that did r.
BufferCall(buffer_null, size, fmt_null, fmt, args, r) ==
    /\ Idle
    /\ EnoughArgs(r, args)
    /\ call' = [op |-> "u_snprintf", buffer_null |-> buffer_null, size |-> size,
                fmt_null |-> fmt_null, fmt |-> fmt, args |-> args, ret |-> r.ret,
                buffer |-> r.buffer, writes |-> r.writes, ap |-> r.ap]
    /\ UNCHANGED <<handlers, float_support, decimal_point, composed, output_state>>

u_snprintf(buffer_null, size, fmt_null, fmt, args) ==
    BufferCall(buffer_null, size, fmt_null, fmt, args,
               IF buffer_null \/ size = 0 \/ fmt_null
               THEN [ret |-> -1, buffer |-> BoundedCtx(size).buffer, writes |-> {},
                     ap |-> 1]
               ELSE Snprintf(handlers, float_support, decimal_point, size, fmt, args))

\* u_sprintf: the characters go to the caller's buffer through
\* buffer_output_cb, one sink invocation per character, and a terminator is
\* stored after them (output_cb of the call is the buffer pointer).
u_sprintf(buffer_null, fmt_null, fmt, args) ==
    FormatCall("u_sprintf", IF buffer_null THEN NULL ELSE 1, fmt_null, fmt, args,
               IF buffer_null \/ fmt_null
               THEN Result(-1, <<>>, 1, 1)
               ELSE VprintfCall(1, fmt_null, fmt, args))

u_set_float_support(enabled) ==
    /\ Idle
    /\ float_support' = enabled
    /\ call' = [op |-> "u_set_float_support", enabled |-> enabled]
    /\ UNCHANGED <<handlers, decimal_point, composed, output_state>>

\* The caller puts a directive together for its next format string, or drops
\* the one it has.
Compose(d) ==
    /\ Idle
    /\ composed' = d
    /\ UNCHANGED <<handlers, float_support, decimal_point, call, output_state>>

\* The cells of the buffer a conversion primitive writes when it leaves str
\* there: one per character, from index 0 on, and the terminator after them.
Written(str) == 0..Len(str)

\* u_itoa called on its own.  "value = -value" overflows for the minimum
\* int64_t in base 10, which is undefined: a build that wraps goes on with
\* the magnitude 2^63, a build that traps signed overflow stops after the
\* '-' was written.
ItoaOverflows(value, base) == base = 10 /\ value = <<HalfLimb, 0, 0, 0>>

ItoaOutcomes(value, base, uppercase) ==
    {[str |-> u_itoa(value, base, uppercase), trapped |-> FALSE]}
        \cup (IF ItoaOverflows(value, base)
              THEN {[str |-> <<45 (* '-' *)>>, trapped |-> TRUE]}
              ELSE {})

u_itoa_call(value, base, uppercase) ==
    /\ Idle
    /\ \E o \in ItoaOutcomes(value, base, uppercase) :
          call' = [op |-> "u_itoa", value |-> value, base |-> base,
                   uppercase |-> uppercase, str |-> o.str, trapped |-> o.trapped,
                   written |-> Written(o.str)]
    /\ UNCHANGED <<handlers, float_support, decimal_point, composed, output_state>>

\* u_ftoa called on its own, with the decimal point of u_state.
u_ftoa_call(value, precision) ==
    /\ Idle
    /\ call' = [op |-> "u_ftoa", value |-> value, precision |-> precision,
                str |-> u_ftoa(value, precision, decimal_point),
                written |-> Written(u_ftoa(value, precision, decimal_point))]
    /\ UNCHANGED <<handlers, float_support, decimal_point, composed, output_state>>

\* ------------------------------------------------------------------------
\* The default sink, the output hooks and the stream processors
\* ------------------------------------------------------------------------
\* Pointers are numbers: NULL, the address 1 of the caller's sink function,
\* other addresses for contexts.  A stream processor is a function of the
\* caller: processor 1 turns lower-case letters into upper case.  A hook
\* records what it is called with.

HookSlots == 16

ProcessorSlots == 16

u_set_default_output(output_cb, ctx) ==
    /\ Idle
    /\ default_output_cb' = output_cb
    /\ default_ctx' = ctx
    /\ call' = [op |-> "u_set_default_output", output_cb |-> output_cb, ctx |-> ctx]
    /\ UNCHANGED <<handlers, float_support, decimal_point, composed, hooks, processors>>

\* u_printf_simple that hands the sink a null context.
SimpleCall_NoContext(fmt_null, fmt, args, r) ==
    /\ Idle
    /\ EnoughArgs(r, args)
    /\ call' = [op |-> "u_printf_simple", fmt_null |-> fmt_null, fmt |-> fmt,
                args |-> args, ret |-> r.ret, out |-> r.out,
                sink |-> default_output_cb, sink_ctx |-> NULL]
    /\ UNCHANGED <<handlers, float_support, decimal_point, composed, output_state>>

\* A call of u_printf_simple that did r; sink and sink_ctx are the function
\* the characters went to and the context it was given.
SimpleCall(fmt_null, fmt, args, r) ==
    /\ Idle
    /\ EnoughArgs(r, args)
    /\ call' = [op |-> "u_printf_simple", fmt_null |-> fmt_null, fmt |-> fmt,
                args |-> args, ret |-> r.ret, out |-> r.out,
                sink |-> default_output_cb, sink_ctx |-> default_ctx]
    /\ UNCHANGED <<handlers, float_support, decimal_point, composed, output_state>>

\* u_printf_simple: u_vprintf on the default sink and its context.
u_printf_simple(fmt_null, fmt, args) ==
    SimpleCall(fmt_null, fmt, args,
               IF default_output_cb = NULL \/ fmt_null
               THEN Result(-1, <<>>, 1, 1)
               ELSE VprintfCall(default_output_cb, fmt_null, fmt, args))

u_add_output_hook(hook, user_data) ==
    /\ Idle
    /\ hooks' = IF Len(hooks) < HookSlots
                THEN Append(hooks, [hook |-> hook, user_data |-> user_data])
                ELSE hooks
    /\ call' = [op |-> "u_add_output_hook", hook |-> hook, user_data |-> user_data]
    /\ UNCHANGED <<handlers, float_support, decimal_point, composed, default_output_cb,
                   default_ctx, processors>>

\* seq without its first element among the positions found (all of seq when
\* there is none): the search and the shift of the remove functions.
RemoveFirst(seq, found) ==
    IF found = {} THEN seq
    ELSE SubSeq(seq, 1, MinOf(found) - 1) \o SubSeq(seq, MinOf(found) + 1, Len(seq))

u_remove_output_hook(hook) ==
    /\ Idle
    /\ hooks' = RemoveFirst(hooks, {i \in 1..Len(hooks) : hooks[i].hook = hook})
    /\ call' = [op |-> "u_remove_output_hook", hook |-> hook]
    /\ UNCHANGED <<handlers, float_support, decimal_point, composed, default_output_cb,
                   default_ctx, processors>>

u_add_stream_processor(processor, ctx) ==
    /\ Idle
    /\ processors' = IF Len(processors) < ProcessorSlots
                     THEN Append(processors, [processor |-> processor, ctx |-> ctx])
                     ELSE processors
    /\ call' = [op |-> "u_add_stream_processor", processor |-> processor, ctx |-> ctx]
    /\ UNCHANGED <<handlers, float_support, decimal_point, composed, default_output_cb,
                   default_ctx, hooks>>

u_remove_stream_processor(processor) ==
    /\ Idle
    /\ processors' = RemoveFirst(processors,
                               {i \in 1..Len(processors) : processors[i].processor = processor})
    /\ call' = [op |-> "u_remove_stream_processor", processor |-> processor]
    /\ UNCHANGED <<handlers, float_support, decimal_point, composed, default_output_cb,
                   default_ctx, hooks>>

\* The caller's processor 1.
Process(processor, c) ==
    IF processor = 1 /\ c >= 97 (* 'a' *) /\ c <= 122 (* 'z' *) THEN c - 32 ELSE c

\* The loop over the processors from i on.
RECURSIVE ApplyProcessors(_, _, _)
ApplyProcessors(procs, i, c) ==
    IF i > Len(procs) THEN c
    ELSE ApplyProcessors(procs, i + 1, Process(procs[i].processor, c))

\* enhanced_output_cb(c, ctx): the processed character, the hook calls made
\* with it, and the call of the original sink, which is ctx itself and is
\* given ctx as its context.
enhanced_output_cb(procs, hks, c, ctx) ==
    [c |-> ApplyProcessors(procs, 1, c),
     hooked |-> [i \in 1..Len(hks) |->
                    [hook |-> hks[i].hook, c |-> ApplyProcessors(procs, 1, c),
                     ctx |-> ctx, user_data |-> hks[i].user_data]],
     sink |-> ctx,
     sink_ctx |-> ctx]

\* What an extended call did, r being what u_vprintf did with
\* enhanced_output_cb as its sink and the caller's sink as its context (the
\* caller's ctx is not passed on).  calls: the invocations of
\* enhanced_output_cb; out: the characters that reached the caller's sink.
\* Calling a null sink is undefined: the call is taken to crash in the first
\* invocation, after the hooks ran.
ExCall(op, output_cb, ctx, fmt_null, fmt, args, r) ==
    /\ Idle
    /\ EnoughArgs(r, args)
    /\ call' = [op |-> op, output_cb |-> output_cb, ctx |-> ctx, fmt_null |-> fmt_null,
                fmt |-> fmt, args |-> args,
                crashed |-> output_cb = NULL /\ r.out # <<>>,
                ret |-> IF output_cb = NULL /\ r.out # <<>> THEN NULL ELSE r.ret,
                calls |-> [k \in 1..(IF output_cb = NULL THEN Min(1, Len(r.out))
                                     ELSE Len(r.out)) |->
                              enhanced_output_cb(processors, hooks, r.out[k], output_cb)],
                out |-> IF output_cb = NULL THEN <<>>
                        ELSE [k \in 1..Len(r.out) |->
                                 ApplyProcessors(processors, 1, r.out[k])]]
    /\ UNCHANGED <<handlers, float_support, decimal_point, composed, output_state>>

u_vprintf_ex(output_cb, ctx, fmt_null, fmt, args) ==
    ExCall("u_vprintf_ex", output_cb, ctx, fmt_null, fmt, args,
           VprintfCall(1, fmt_null, fmt, args))

u_printf_ex(output_cb, ctx, fmt_null, fmt, args) ==
    ExCall("u_printf_ex", output_cb, ctx, fmt_null, fmt, args,
           VprintfCall(1, fmt_null, fmt, args))

\* The call returns to its caller.
\* ------------------------------------------------------------------------
\* String helpers: u_str_match_pattern and u_str_replace
\* ------------------------------------------------------------------------

\* The rest of a C string from 1-based position pos on.
StrFrom(str, pos) == SubSeq(str, pos, Len(str))

RECURSIVE u_str_match_pattern(_, _)
RECURSIVE MatchStar(_, _)

\* The inner loop at a '*': try the rest of the pattern at str, str + 1, ...
\* while *str; at the end of str the answer is !*pattern.
MatchStar(str, pattern) ==
    IF str # <<>>
    THEN IF u_str_match_pattern(str, pattern)
         THEN TRUE
         ELSE MatchStar(Tail(str), pattern)
    ELSE pattern = <<>>

u_str_match_pattern(str, pattern) ==
    IF pattern = <<>>
    THEN str = <<>>
    ELSE IF Head(pattern) = 42 (* '*' *)
         THEN MatchStar(str, Tail(pattern))
         ELSE IF Head(pattern) = 63 (* '?' *)
              THEN IF str = <<>>
                   THEN FALSE
                   ELSE u_str_match_pattern(Tail(str), Tail(pattern))
              ELSE IF str = <<>> \/ Head(pattern) # Head(str)
                   THEN FALSE
                   ELSE u_str_match_pattern(Tail(str), Tail(pattern))

u_str_match_pattern_call(str, pattern) ==
    /\ Idle
    /\ call' = [op |-> "u_str_match_pattern", str |-> str, pattern |-> pattern,
                ret |-> u_str_match_pattern(str, pattern)]
    /\ UNCHANGED <<handlers, float_support, decimal_point, composed, output_state>>

\* strstr(str + pos - 1, find) as a 1-based position in str, 0 for NULL; an
\* empty find is found at once.
Strstr(str, pos, find) ==
    LET found == {k \in pos..(Len(str) + 1) :
                     /\ k + Len(find) - 1 <= Len(str)
                     /\ SubSeq(str, k, k + Len(find) - 1) = find}
    IN  IF found = {} THEN 0 ELSE MinOf(found)

\* count is an int in the source; it is followed modulo MaxCount + 1, more
\* than any string here has occurrences.
MaxCount == 5

\* u_str_replace starts: the null checks, then count = 0 and pos = str.
\* pc is the loop the call is in; result holds the characters written so far
\* (dst = result + Len(result)), written the offsets written in the buffer
\* of new_len bytes.
u_str_replace(str_null, find_null, str, find, replace) ==
    /\ Idle
    /\ call' = [op |-> "u_str_replace", str_null |-> str_null,
                find_null |-> find_null, str |-> str, find |-> find,
                replace |-> replace,
                pc |-> IF str_null \/ find_null THEN "done" ELSE "count",
                pos |-> 1, count |-> 0, new_len |-> 0, src |-> 1,
                result |-> <<>>, written |-> {}, ret_null |-> TRUE]
    /\ UNCHANGED <<handlers, float_support, decimal_point, composed, output_state>>

\* One turn of the counting loop; when strstr finds nothing the length is
\* computed and the buffer allocated (malloc may fail).
u_str_replace_count ==
    /\ call.op = "u_str_replace"
    /\ call.pc = "count"
    /\ IF Strstr(call.str, call.pos, call.find) # 0
       THEN call' = [call EXCEPT !.count = (@ + 1) % (MaxCount + 1),
                        !.pos = Strstr(call.str, call.pos, call.find) + Len(call.find)]
       ELSE \E allocated \in BOOLEAN :
               call' = [call EXCEPT
                           !.new_len = Len(call.str)
                                       + call.count * (Len(call.replace) - Len(call.find)) + 1,
                           !.pc = IF allocated THEN "build" ELSE "done"]
    /\ UNCHANGED <<handlers, float_support, decimal_point, composed, output_state>>

\* One turn of the build loop on call record c: strcpy of replace (with its
\* terminator) at an occurrence, else one character; after the loop the
\* terminator.
BuildTurn(c) ==
    IF c.src <= Len(c.str)
    THEN IF Strstr(c.str, c.src, c.find) = c.src
         THEN [c EXCEPT !.result = @ \o c.replace,
                        !.written = @ \cup (Len(c.result)..(Len(c.result) + Len(c.replace))),
                        !.src = @ + Len(c.find)]
         ELSE [c EXCEPT !.result = Append(@, c.str[c.src]),
                        !.written = @ \cup {Len(c.result)},
                        !.src = @ + 1]
    ELSE [c EXCEPT !.written = @ \cup {Len(c.result)},
                   !.pc = "done", !.ret_null = FALSE]

u_str_replace_build ==
    /\ call.op = "u_str_replace"
    /\ call.pc = "build"
    /\ call' = BuildTurn(call)
    /\ UNCHANGED <<handlers, float_support, decimal_point, composed, output_state>>

\* The call in progress returns; u_str_replace only after its loops.
Return ==
    /\ call.op # "none"
    /\ call.op = "u_str_replace" => call.pc = "done"
    /\ call' = [op |-> "none"]
    /\ UNCHANGED <<handlers, float_support, decimal_point, composed, output_state>>

\* ------------------------------------------------------------------------
\* Specifications
\* ------------------------------------------------------------------------

\* The handler registry under every register / unregister sequence, probed
\* with one directive per specifier character.
RegHandlers == {NULL, 1, 2}

NextReg ==
    \/ Idle /\ \E c \in RegChars, h \in RegHandlers : u_register_format_handler(c, h)
    \/ Idle /\ \E c \in RegChars : u_unregister_format_handler(c)
    \/ Idle /\ \E fmt \in ProbeFmts, args \in ArgLists : u_printf(1, FALSE, fmt, args)
    \/ Return

SpecReg == Init /\ [][NextReg]_vars

\* The format engine on every short format string, with handlers coming and
\* going for 'K' and 'd'.
FmtRegs == {<<75 (* 'K' *), 1>>, <<75 (* 'K' *), 2>>, <<75 (* 'K' *), 3>>,
            <<100 (* 'd' *), 1>>}

\* The format strings of a call: a null format pointer has no string.
FmtsOf(fmt_null) == IF fmt_null THEN {<<>>} ELSE Fmts

Next ==
    \/ Idle /\ \E r \in FmtRegs : u_register_format_handler(r[1], r[2])
    \/ Idle /\ u_unregister_format_handler(75 (* 'K' *))
    \/ Idle /\ \E cb \in Sinks, fn \in BOOLEAN : \E fmt \in FmtsOf(fn), args \in ArgLists :
          u_vprintf(cb, fn, fmt, args)
    \/ Idle /\ \E cb \in Sinks, fn \in BOOLEAN : \E fmt \in FmtsOf(fn), args \in ArgLists :
          u_printf(cb, fn, fmt, args)
    \/ Return

Spec == Init /\ [][Next]_vars

\* The bounded buffer adapter on the same inputs, and on the documented call
\* with capacity HelloSize.
Sizes == 0..MaxSize

HelloSize == 10

\* The calls of u_snprintf: every capacity with every format string, the
\* documented call, and the calls with a null buffer or format pointer.
SnCalls ==
    {<<FALSE, size, FALSE, fmt>> : size \in Sizes, fmt \in Fmts}
        \cup {<<FALSE, HelloSize, FALSE, Hello>>}
        \cup {<<bn, size, fn, <<>>>> : bn \in BOOLEAN, size \in Sizes, fn \in BOOLEAN}

NextSn ==
    \/ Idle /\ \E r \in FmtRegs : u_register_format_handler(r[1], r[2])
    \/ Idle /\ u_unregister_format_handler(75 (* 'K' *))
    \/ Idle /\ \E c \in SnCalls, args \in ArgLists : u_snprintf(c[1], c[2], c[3], c[4], args)
    \/ Return

SpecSn == Init /\ [][NextSn]_vars

\* The format engine on one directive of the grammar
\*   "%" flags width ("." precision) length specifier
\* between two literals, with every flag set, with and without width,
\* precision and length modifier, for every built-in specifier, an unknown one
\* and the end of the string, with the float support switched on and off.
FlagOrder == <<45 (* '-' *), 43 (* '+' *), 32 (* ' ' *), 48 (* '0' *), 35 (* '#' *)>>

DirFlags == SUBSET {45 (* '-' *), 43 (* '+' *), 32 (* ' ' *), 48 (* '0' *), 35 (* '#' *)}

\* Widths and precisions: -1 when the directive has none.
DirWidths == {-1, 2, 5, 12}

DirPrecisions == {-1, 0, 3}

DirLengths == {<<>>, <<104, 104>> (* "hh" *), <<108>> (* "l" *)}

\* Specifiers: NUL when the format string ends before the specifier.
DirSpecifiers ==
    {100 (* 'd' *), 105 (* 'i' *), 117 (* 'u' *), 111 (* 'o' *), 120 (* 'x' *),
     88 (* 'X' *), 112 (* 'p' *), 102 (* 'f' *), 70 (* 'F' *), 115 (* 's' *),
     99 (* 'c' *), 110 (* 'n' *), 37 (* '%' *), 75 (* 'K' *), NUL}

Directives ==
    [flags : DirFlags, width : DirWidths, precision : DirPrecisions,
     length : DirLengths, specifier : DirSpecifiers]

RECURSIVE DecimalText(_)
DecimalText(n) ==
    IF n < 10 THEN <<48 (* '0' *) + n>>
    ELSE DecimalText(n \div 10) \o <<48 (* '0' *) + (n % 10)>>

FlagText(flags) == SelectSeq(FlagOrder, LAMBDA c : c \in flags)

WidthText(width) == IF width < 0 THEN <<>> ELSE DecimalText(width)

PrecisionText(precision) ==
    IF precision < 0 THEN <<>> ELSE <<46 (* '.' *)>> \o DecimalText(precision)

\* The text of the directive after its '%'.
ModifierText(d) ==
    FlagText(d.flags) \o WidthText(d.width) \o PrecisionText(d.precision) \o d.length

DirPre == <<97, 98>> (* "ab" *)

DirPost(d) == IF d.specifier = NUL THEN <<>> ELSE <<d.specifier, 33 (* '!' *)>>

\* The format string built from d: "ab", the directive, and "!" after a
\* specifier.
DirFmt(d) == DirPre \o <<37 (* '%' *)>> \o ModifierText(d) \o DirPost(d)

\* The arguments: each can be read as an integer, a string and a double.
DirArgs ==
    { [i |-> U64(0), s |-> <<>>, snull |-> FALSE,
       f |-> ZeroFloat],
      [i |-> U64(42), s |-> World, snull |-> FALSE,
       f |-> [kind |-> "fin", neg |-> FALSE, int |-> U64(3), frac |-> <<1, 4, 1, 5, 9>>]],
      [i |-> U64(-42), s |-> <<>>, snull |-> TRUE,
       f |-> [kind |-> "fin", neg |-> TRUE, int |-> U64(2), frac |-> <<5>>]],
      [i |-> U64(2748), s |-> <<97, 98>> (* "ab" *), snull |-> FALSE,
       f |-> [kind |-> "fin", neg |-> FALSE, int |-> U64(42), frac |-> <<>>]],
      [i |-> U64(511), s |-> <<97, 98>> (* "ab" *), snull |-> FALSE,
       f |-> [kind |-> "fin", neg |-> TRUE, int |-> U64(0), frac |-> <<2, 5>>]] }

\* The buffers u_sprintf is called with for an argument: the null buffer is
\* tried with the null string.
DirBuffers(a) == IF a.snull THEN BOOLEAN ELSE {FALSE}

\* Two formats with a second conversion: "%f %d", and "%*.*d|%d" with a width
\* of 5 and a precision of 3 taken from the arguments.
FloatThenInt == <<37, 102, 32, 37, 100>> (* "%f %d" *)

StarsThenInt == <<37, 42, 46, 42, 100, 124, 37, 100>> (* "%*.*d|%d" *)

NextDir ==
    \/ Idle /\ composed = NoDirective /\ \E d \in Directives : Compose(d)
    \/ Idle /\ composed # NoDirective /\ Compose(NoDirective)
    \/ Idle /\ \E enabled \in BOOLEAN : u_set_float_support(enabled)
    \/ Idle /\ composed # NoDirective /\ \E a \in DirArgs :
          u_vprintf(1, FALSE, DirFmt(composed), <<a>>)
    \/ Idle /\ composed # NoDirective /\ \E a \in DirArgs : \E bn \in DirBuffers(a) :
          u_sprintf(bn, FALSE, DirFmt(composed), <<a>>)
    \/ Idle /\ composed = NoDirective /\ \E a \in DirArgs, b \in DirArgs :
          u_vprintf(1, FALSE, FloatThenInt, <<a, b>>)
    \/ Idle /\ composed = NoDirective /\ \E a \in DirArgs, b \in DirArgs :
          u_vprintf(1, FALSE, StarsThenInt, <<IntArg(5), IntArg(3), a, b>>)
    \/ Return

SpecDir == Init /\ [][NextDir]_vars

\* The float directives on the special values: every flag set and width,
\* precisions below and above the length of "nan", "inf" and "-inf".
FloatPrecisions == {-1, 0, 3, 10}

FloatDirectives ==
    [flags : DirFlags, width : DirWidths, precision : FloatPrecisions,
     length : {<<>>}, specifier : {102 (* 'f' *), 70 (* 'F' *)}]

NaN == [kind |-> "nan", neg |-> FALSE, int |-> U64(0), frac |-> <<>>]

Infinity(neg) == [kind |-> "inf", neg |-> neg, int |-> U64(0), frac |-> <<>>]

FloatArg(f) == [i |-> U64(0), s |-> <<>>, snull |-> TRUE, f |-> f]

FloatArgs ==
    { FloatArg(NaN), FloatArg([NaN EXCEPT !.neg = TRUE]),
      FloatArg(Infinity(FALSE)), FloatArg(Infinity(TRUE)),
      FloatArg([kind |-> "fin", neg |-> TRUE, int |-> U64(7), frac |-> <<5>>]) }

NextFloat ==
    \/ Idle /\ composed = NoDirective /\ \E d \in FloatDirectives : Compose(d)
    \/ Idle /\ composed # NoDirective /\ Compose(NoDirective)
    \/ Idle /\ \E enabled \in BOOLEAN : u_set_float_support(enabled)
    \/ Idle /\ composed # NoDirective /\ \E a \in FloatArgs :
          u_vprintf(1, FALSE, DirFmt(composed), <<a>>)
    \/ Return

SpecFloat == Init /\ [][NextFloat]_vars

\* The conversion primitives on their own: u_itoa on the ends and the middle
\* of the int64_t range in valid and invalid bases, u_ftoa on fixed-point
\* decimals with short and longest integer parts, every fraction of up to
\* MaxFracLen digits, and precisions from negative to far above the buffer.
Int64Max == <<HalfLimb - 1, Limb - 1, Limb - 1, Limb - 1>>

Int64Min == <<HalfLimb, 0, 0, 0>>

ItoaValues ==
    {U64(0), U64(1), U64(-1), U64(42), U64(-42), U64(255), U64(-256),
     Int64Max, Int64Min, <<HalfLimb, 0, 0, 1>>}

ItoaBases == {1, 2, 8, 10, 16, 36, 37}

MaxFracLen == 3

FracDigits == {0, 4, 5, 9}

FtoaInts == {U64(0), U64(7), U64(9), U64(99), Int64Max}

FtoaValues ==
    [kind : {"fin"}, neg : BOOLEAN, int : FtoaInts, frac : SeqsUpTo(FracDigits, MaxFracLen)]

FtoaPrecisions == {-1, 0, 1, 2, 6, 16, 17, 100}

NextConv ==
    \/ Idle /\ \E value \in ItoaValues, base \in ItoaBases, uppercase \in BOOLEAN :
          u_itoa_call(value, base, uppercase)
    \/ Idle /\ \E value \in FtoaValues, precision \in FtoaPrecisions :
          u_ftoa_call(value, precision)
    \/ Return

SpecConv == Init /\ [][NextConv]_vars

\* The extended calls next to u_vprintf, with hooks and processors coming
\* and going, on the format strings of the test suite.
ExContexts == {NULL, 2}

Hooks == {1}

StreamProcessors == {1}

NextEx ==
    \/ Idle /\ \E hook \in Hooks : u_add_output_hook(hook, 3)
    \/ Idle /\ \E hook \in Hooks : u_remove_output_hook(hook)
    \/ Idle /\ \E processor \in StreamProcessors : u_add_stream_processor(processor, NULL)
    \/ Idle /\ \E processor \in StreamProcessors : u_remove_stream_processor(processor)
    \/ Idle /\ \E cb \in Sinks, ctx \in ExContexts, fn \in BOOLEAN :
          \E fmt \in (IF fn THEN {<<>>} ELSE TestFmts), args \in ArgLists :
             u_vprintf_ex(cb, ctx, fn, fmt, args)
    \/ Idle /\ \E cb \in Sinks, ctx \in ExContexts, fn \in BOOLEAN :
          \E fmt \in (IF fn THEN {<<>>} ELSE TestFmts), args \in ArgLists :
             u_printf_ex(cb, ctx, fn, fmt, args)
    \/ Return

SpecEx == Init /\ [][NextEx]_vars

\* The default sink: every sequence of u_set_default_output calls, with null
\* and non-null sinks and contexts, and u_printf_simple in between.
DefaultSinks == {NULL, 1, 4}

DefaultContexts == {NULL, 2, 3}

NextSimple ==
    \/ Idle /\ \E cb \in DefaultSinks, ctx \in DefaultContexts : u_set_default_output(cb, ctx)
    \/ Idle /\ \E fn \in BOOLEAN : \E fmt \in (IF fn THEN {<<>>} ELSE TestFmts), args \in ArgLists :
          u_printf_simple(fn, fmt, args)
    \/ Return

SpecSimple == Init /\ [][NextSimple]_vars

\* The string helpers on every string over two letters, every pattern over
\* the letters and the two wildcards, and null pointers.
MaxStrLen == 3

StrChars == {97 (* 'a' *), 98 (* 'b' *)}

Strs == SeqsUpTo(StrChars, MaxStrLen)

Patterns == SeqsUpTo(StrChars \cup {42 (* '*' *), 63 (* '?' *)}, MaxStrLen)

Finds == SeqsUpTo(StrChars, MaxStrLen - 1)

Replacements == {<<>>, <<98>>, <<97, 97>>, <<98, 97, 98>>}

NextStr ==
    \/ Idle /\ \E str \in Strs, pattern \in Patterns : u_str_match_pattern_call(str, pattern)
    \/ Idle /\ \E sn \in BOOLEAN, fn \in BOOLEAN :
          \E str \in (IF sn THEN {<<>>} ELSE Strs), find \in (IF fn THEN {<<>>} ELSE Finds),
             replace \in Replacements :
             u_str_replace(sn, fn, str, find, replace)
    \/ u_str_replace_count
    \/ u_str_replace_build
    \/ Return

SpecStr == Init /\ [][NextStr]_vars

\* A call of u_str_replace that has started keeps running.
SpecStrLive ==
    SpecStr /\ WF_vars(u_str_replace_count) /\ WF_vars(u_str_replace_build) /\ WF_vars(Return)

\* ------------------------------------------------------------------------
\* Properties
\* ------------------------------------------------------------------------

FormatOps == {"u_vprintf", "u_printf"}

\* A format call with a non-null sink and a non-null format string.
NonNullCall == call.op \in FormatOps /\ call.output_cb # NULL /\ ~call.fmt_null

\* A bounded-buffer call that passes the argument checks.
SnCall ==
    call.op = "u_snprintf" /\ ~call.buffer_null /\ call.size >= 1 /\ ~call.fmt_null

Occupied(tab) == Cardinality({i \in Slots : tab[i].specifier # NUL})

Percent(c) == <<37 (* '%' *), c>>

\* C1: no two slots of the handler table hold the same non-zero specifier
\* character, after any sequence of register / unregister calls.
C1_OneSlotPerSpecifier ==
    \A i, j \in Slots :
        (i # j /\ handlers[i].specifier # NUL)
            => handlers[i].specifier # handlers[j].specifier

\* C2: once unregisterHandler(c) has returned success, and as long as c is not
\* registered again, a directive with specifier c invokes no handler (and
\* "%K" is echoed back): it holds right after the call, and every later call
\* other than a successful register of c keeps it.
C2_UnregisteredNotDispatched ==
    [][ /\ (call'.op = "u_unregister_format_handler" /\ call'.ret = 0
              /\ call'.specifier # NUL)
            => LET r == Vprintf(handlers', float_support', decimal_point',
                                Percent(call'.specifier), <<>>)
               IN  /\ r.invoked = <<>>
                   /\ (call'.specifier = 75 (* 'K' *) => r.out = Percent(75 (* 'K' *)))
        /\ \A c \in RegChars \ {NUL} :
              (/\ FindHandler(handlers, c) = NULL
               /\ ~(call'.op = "u_register_format_handler" /\ call'.specifier = c
                    /\ call'.ret = 0))
                 => FindHandler(handlers', c) = NULL
      ]_vars

\* The text of a directive with an optional '-' flag, width 5 and precision 3.
DirectiveText(left, width, precision, c) ==
    <<37 (* '%' *)>> \o (IF left THEN <<45 (* '-' *)>> ELSE <<>>)
                 \o (IF width = 5 THEN <<53 (* '5' *)>> ELSE <<>>)
                 \o (IF precision = 3 THEN <<46 (* '.' *), 51 (* '3' *)>> ELSE <<>>)
                 \o <<c>>

\* A call that formatted literal text pre followed by one directive with
\* specifier c while handler h was registered for c: h was invoked exactly
\* once with the parsed width, precision and flags, the engine emitted
\* nothing for the directive, and the call returned total.
HandlerDirective(pre, left, width, precision, c, total) ==
    LET h == FindHandler(handlers, c)
    IN  /\ call.invoked = <<[handler |-> h, specifier |-> c, pos |-> Len(call.fmt) + 1,
                            ap |-> 1, width |-> width, precision |-> precision,
                            flags |-> IF left THEN {U_FLAG_LEFT_ALIGN} ELSE {}]>>
        /\ call.out = pre \o HandlerOut(h)
        /\ call.ret = total

HandlerDirectiveCases(Total(_, _)) ==
    \A pre \in {<<>>, <<97 (* 'a' *)>>}, left \in BOOLEAN, width \in {-1, 5},
       precision \in {-1, 3}, c \in {75 (* 'K' *), 100 (* 'd' *)} :
        (/\ NonNullCall
         /\ call.fmt = pre \o DirectiveText(left, width, precision, c)
         /\ FindHandler(handlers, c) # NULL)
            => HandlerDirective(pre, left, width, precision, c,
                                Total(pre, FindHandler(handlers, c)))

C3_TotalAdded(pre, h) == Len(pre) + HandlerRet(h)

C3_TotalOrError(pre, h) ==
    IF HandlerRet(h) < 0 THEN HandlerRet(h) ELSE Len(pre) + HandlerRet(h)

C4_SecondRegisterSucceeds ==
    (call.op = "u_register_format_handler" /\ call.handler # NULL)
        => LET r2 == Register(handlers, call.specifier, call.handler)
           IN  /\ r2.tab = handlers
               /\ r2.ret = 0
               /\ Occupied(r2.tab) = Occupied(handlers)

\* C4 as amended: the second call leaves the table as it is, returns what the
\* first call returned, and fills no further slot.
C4_RegisterIdempotent ==
    (call.op = "u_register_format_handler" /\ call.handler # NULL)
        => LET r2 == Register(handlers, call.specifier, call.handler)
           IN  /\ r2.tab = handlers
               /\ r2.ret = call.ret
               /\ Occupied(r2.tab) = Occupied(handlers)

C4_Witness ==
    /\ call.op = "u_register_format_handler"
    /\ call.handler # NULL
    /\ call.ret = 0
    /\ Occupied(handlers) >= 2
    /\ Occupied(handlers) < UPRINTF_MAX_HANDLERS

\* C5: registerHandler(c, h) with a non-null h fails exactly when every slot
\* holds a specifier that is neither empty nor c; then the table is unchanged;
\* otherwise the call succeeds and c dispatches to h afterwards.
C5_RegisterFailsOnlyWhenFull ==
    [][ (call'.op = "u_register_format_handler" /\ call'.handler # NULL)
          => LET c == call'.specifier
                 full == \A i \in Slots : handlers[i].specifier # NUL
                                          /\ handlers[i].specifier # c
             IN  /\ (call'.ret # 0) <=> full
                 /\ full => handlers' = handlers
                 /\ ~full => /\ call'.ret = 0
                             /\ FindHandler(handlers', c) = call'.handler
                             /\ c # NUL =>
                                  LET r == Vprintf(handlers', float_support',
                                                   decimal_point', Percent(c), <<>>)
                                  IN  /\ Len(r.invoked) = 1
                                      /\ r.invoked[1].handler = call'.handler
      ]_vars

C5_Witness ==
    /\ call.op = "u_register_format_handler"
    /\ call.handler # NULL
    /\ call.ret = -1
    /\ Occupied(handlers) = UPRINTF_MAX_HANDLERS

\* C6: unregisterHandler(c) returns success only if a handler is registered
\* for c, and then c has no handler any more; for every c without a handler,
\* the zero character included, it returns failure and leaves the table
\* unchanged.
C6_UnregisterOnlyRegistered ==
    [][ call'.op = "u_unregister_format_handler"
          => LET c == call'.specifier
             IN  /\ call'.ret = 0 => /\ FindHandler(handlers, c) # NULL
                                     /\ FindHandler(handlers', c) = NULL
                 /\ FindHandler(handlers, c) = NULL => /\ call'.ret = -1
                                                       /\ handlers' = handlers
      ]_vars

\* C7: a format call with a null sink or a null format string returns a
\* negative value, never invokes the sink and consumes no argument.
C7_NullArgumentsRejected ==
    (call.op \in FormatOps /\ (call.output_cb = NULL \/ call.fmt_null))
        => /\ call.ret < 0
           /\ call.out = <<>>
           /\ call.ap = 1
           /\ call.invoked = <<>>
           /\ call.stores = <<>>

C7_Witness ==
    /\ call.op = "u_vprintf"
    /\ call.output_cb = NULL
    /\ ~call.fmt_null
    /\ call.fmt = Percent(100 (* 'd' *))
    /\ call.ret < 0

\* The count a call has accumulated: the characters the engine emitted itself
\* plus the values the handlers returned.
RECURSIVE ReturnedSum(_, _)
ReturnedSum(invoked, k) ==
    IF k > Len(invoked) THEN 0
    ELSE HandlerRet(invoked[k].handler) + ReturnedSum(invoked, k + 1)

RECURSIVE EmittedSum(_, _)
EmittedSum(invoked, k) ==
    IF k > Len(invoked) THEN 0
    ELSE Len(HandlerOut(invoked[k].handler)) + EmittedSum(invoked, k + 1)

Accumulated ==
    Len(call.out) - EmittedSum(call.invoked, 1) + ReturnedSum(call.invoked, 1)

NegativeHandler == \E k \in 1..Len(call.invoked) : HandlerRet(call.invoked[k].handler) < 0

C9_BoundedWrites ==
    SnCall => LET k == Cardinality(call.writes) - 1
              IN  /\ call.writes \subseteq 0..(call.size - 1)
                  /\ k <= call.size - 1
                  /\ call.buffer[k] = NUL
                  /\ \A j \in 0..(k - 1) : call.buffer[j] # Junk

C9_Witness ==
    /\ SnCall
    /\ call.size = MaxSize
    /\ call.ret = MaxSize - 1
    /\ Len(Vprintf(handlers, float_support, decimal_point, call.fmt, call.args).out)
          > MaxSize

\* C10: u_snprintf with capacity N >= 1 returns min(L, N-1), L being the
\* length of the untruncated output, and the buffer holds the first
\* min(L, N-1) characters of that output; it never returns L when L > N-1.
C10_ReturnsStoredCount ==
    SnCall => LET full == Vprintf(handlers, float_support, decimal_point,
                                  call.fmt, call.args).out
                  m == Min(Len(full), call.size - 1)
              IN  /\ call.ret = m
                  /\ \A k \in 1..m : call.buffer[k - 1] = full[k]
                  /\ Len(full) > call.size - 1 => call.ret # Len(full)

C10_Witness ==
    /\ SnCall
    /\ call.size = 10
    /\ call.fmt = Hello
    /\ call.args[1].s = World
    /\ call.ret = 9
    /\ [k \in 1..9 |-> call.buffer[k - 1]]
          = <<72, 101, 108, 108, 111, 44, 32, 87, 111>> (* "Hello, Wo" *)

\* ------------------------------------------------------------------------
\* The directive grammar (SpecDir)
\* ------------------------------------------------------------------------
\* A format call made with the composed directive, with a sink (or a buffer)
\* and a format string.
DirCall ==
    /\ call.op \in {"u_vprintf", "u_sprintf"}
    /\ call.output_cb # NULL
    /\ ~call.fmt_null
    /\ composed # NoDirective

\* The argument of the directive.
DirArg == call.args[1]

\* C11: when no custom handler is involved, the value a format call returns
\* is the number of times it invoked the sink, whatever the directive:
\* literals, built-in conversions, padding, precision truncation, NULL
\* strings and the echo-back paths.
C11_ReturnCountsSinkCalls ==
    (DirCall /\ call.invoked = <<>>) => call.ret = Len(call.out)

\* "ab%5.3s!" with a NULL string through u_sprintf: "ab", two spaces, "(nu", "!".
C11_Witness ==
    /\ DirCall
    /\ call.op = "u_sprintf"
    /\ composed.specifier = 115 (* 's' *)
    /\ composed.width = 5
    /\ composed.precision = 3
    /\ composed.flags = {}
    /\ DirArg.snull
    /\ call.invoked = <<>>
    /\ call.out = <<97, 98, 32, 32, 40, 110, 117, 33>> (* "ab  (nu!" *)
    /\ call.ret = 8

\* The text ISO C (7.21.6.1) gives an integer directive: the value converted
\* by the length modifier, at least precision digits (1 without a precision,
\* so that a zero value with precision 0 has no digits), the alternate-form
\* prefix, the sign of a signed conversion, and the padding to the width:
\* spaces on the right with '-', else zeros after the sign and the prefix
\* with '0' and no precision, else spaces on the left.
StdSigned(d) == d.specifier \in {100 (* 'd' *), 105 (* 'i' *)}

StdBase(d) ==
    IF d.specifier = 111 (* 'o' *) THEN 8
    ELSE IF d.specifier \in {120 (* 'x' *), 88 (* 'X' *)} THEN 16
    ELSE 10

StdValue(d, i) ==
    IF d.length = <<104, 104>> (* "hh" *)
    THEN (IF StdSigned(d) THEN ToSChar(i) ELSE ToUChar(i))
    ELSE IF d.length = <<108>> (* "l" *) THEN i
    ELSE IF StdSigned(d) THEN ToInt(i)
    ELSE ToUInt(i)

StdNegative(d, i) == StdSigned(d) /\ U64IsNeg(StdValue(d, i))

StdMagnitude(d, i) ==
    IF StdNegative(d, i) THEN U64Neg(StdValue(d, i)) ELSE StdValue(d, i)

StdDigit(r, upper) ==
    IF r < 10 THEN 48 (* '0' *) + r
    ELSE IF upper THEN 65 (* 'A' *) + (r - 10)
    ELSE 97 (* 'a' *) + (r - 10)

RECURSIVE StdDigits(_, _, _)
StdDigits(x, base, upper) ==
    IF U64IsZero(x) THEN <<>>
    ELSE StdDigits(U64DivMod(x, base).q, base, upper)
             \o <<StdDigit(U64DivMod(x, base).r, upper)>>

StdZeros(n) == [k \in 1..n |-> 48 (* '0' *)]

StdSpaces(n) == [k \in 1..n |-> 32 (* ' ' *)]

StdAtLeast(digits, n) ==
    IF Len(digits) >= n THEN digits ELSE StdZeros(n - Len(digits)) \o digits

StdOctalForm(digits) ==
    IF digits # <<>> /\ digits[1] = 48 (* '0' *) THEN digits ELSE <<48 (* '0' *)>> \o digits

StdNumber(d, x) ==
    StdAtLeast(StdDigits(x, StdBase(d), d.specifier = 88 (* 'X' *)),
               IF d.precision < 0 THEN 1 ELSE d.precision)

StdBody(d, x) ==
    IF 35 (* '#' *) \in d.flags /\ d.specifier = 111 (* 'o' *)
    THEN StdOctalForm(StdNumber(d, x))
    ELSE StdNumber(d, x)

StdPrefix(d, x) ==
    IF 35 (* '#' *) \notin d.flags \/ U64IsZero(x) THEN <<>>
    ELSE IF d.specifier = 120 (* 'x' *) THEN <<48, 120>> (* "0x" *)
    ELSE IF d.specifier = 88 (* 'X' *) THEN <<48, 88>> (* "0X" *)
    ELSE <<>>

StdSign(d, i) ==
    IF ~StdSigned(d) THEN <<>>
    ELSE IF StdNegative(d, i) THEN <<45 (* '-' *)>>
    ELSE IF 43 (* '+' *) \in d.flags THEN <<43 (* '+' *)>>
    ELSE IF 32 (* ' ' *) \in d.flags THEN <<32 (* ' ' *)>>
    ELSE <<>>

StdPadded(d, head, body) ==
    IF 45 (* '-' *) \in d.flags
    THEN head \o body \o StdSpaces(d.width - Len(head) - Len(body))
    ELSE IF 48 (* '0' *) \in d.flags /\ d.precision < 0
    THEN head \o StdZeros(d.width - Len(head) - Len(body)) \o body
    ELSE StdSpaces(d.width - Len(head) - Len(body)) \o head \o body

StdInteger(d, i) ==
    StdPadded(d, StdSign(d, i) \o StdPrefix(d, StdMagnitude(d, i)),
              StdBody(d, StdMagnitude(d, i)))

\* The directives ISO C defines for the integer conversions: '#' is for
\* o, x and X only.
StdIntegerDirective(d) ==
    /\ d.specifier \in {100 (* 'd' *), 105 (* 'i' *), 117 (* 'u' *), 111 (* 'o' *),
                        120 (* 'x' *), 88 (* 'X' *)}
    /\ 35 (* '#' *) \in d.flags => d.specifier \in {111 (* 'o' *), 120 (* 'x' *), 88 (* 'X' *)}

\* The output of the call: "ab", text, "!".
DirOutputIs(text) == call.out = DirPre \o text \o <<33 (* '!' *)>>

\* A negative value given to o, x or X.
NegativeUnsigned ==
    /\ composed.specifier \in {111 (* 'o' *), 120 (* 'x' *), 88 (* 'X' *)}
    /\ U64IsNeg(DirArg.i)

\* C12: for every integer directive of the grammar and every value, the
\* engine emits the text standard C printf produces, negative values given
\* to o / x / X excepted.
C12_SameAsPrintf ==
    (DirCall /\ StdIntegerDirective(composed) /\ ~NegativeUnsigned)
        => DirOutputIs(StdInteger(composed, DirArg.i))

\* "ab%5d!" with -42: the engine emits " -42" where printf gives "  -42".
C12_Witness ==
    /\ DirCall
    /\ composed = [flags |-> {}, width |-> 5, precision |-> -1, length |-> <<>>,
                   specifier |-> 100 (* 'd' *)]
    /\ DirArg.i = U64(-42)
    /\ StdInteger(composed, DirArg.i) = <<32, 32, 45, 52, 50>> (* "  -42" *)
    /\ DirOutputIs(<<32, 45, 52, 50>> (* " -42" *))

\* The sign and the digits of d / i / f as rendered without flags, width and
\* precision.
PlainSign(d, a) ==
    IF d.specifier \in {102 (* 'f' *), 70 (* 'F' *)}
    THEN (IF FloatIsNeg(a.f) THEN <<45 (* '-' *)>>
          ELSE IF 43 (* '+' *) \in d.flags THEN <<43 (* '+' *)>>
          ELSE IF 32 (* ' ' *) \in d.flags THEN <<32 (* ' ' *)>>
          ELSE <<>>)
    ELSE StdSign(d, a.i)

PlainDigits(d, a) ==
    IF d.specifier \in {102 (* 'f' *), 70 (* 'F' *)}
    THEN u_ftoa([a.f EXCEPT !.neg = FALSE], d.precision, decimal_point)
    ELSE StdNumber(d, StdMagnitude(d, a.i))

ZeroPadDirective ==
    /\ DirCall
    /\ composed.specifier \in {100 (* 'd' *), 105 (* 'i' *), 102 (* 'f' *)}
    /\ composed.specifier = 102 (* 'f' *) => float_support
    /\ 48 (* '0' *) \in composed.flags
    /\ 45 (* '-' *) \notin composed.flags
    /\ composed.width >= 0
    /\ composed.precision < 0

\* C13: d / i / f with the '0' flag, a width W, no '-' flag and no precision
\* emit, for every value, the sign, then the zeros that pad up to W, then the
\* digits.
C13_ZerosAfterSign ==
    ZeroPadDirective
        => DirOutputIs(PlainSign(composed, DirArg)
                       \o StdZeros(composed.width - Len(PlainSign(composed, DirArg))
                                   - Len(PlainDigits(composed, DirArg)))
                       \o PlainDigits(composed, DirArg))

\* The same for the values that are not negative.
C13_ZerosAfterSignNonNegative ==
    (ZeroPadDirective /\ PlainSign(composed, DirArg) # <<45 (* '-' *)>>)
        => DirOutputIs(PlainSign(composed, DirArg)
                       \o StdZeros(composed.width - Len(PlainSign(composed, DirArg))
                                   - Len(PlainDigits(composed, DirArg)))
                       \o PlainDigits(composed, DirArg))

\* "ab%05d!" with -42: the engine emits "0-42".
C13_Witness ==
    /\ ZeroPadDirective
    /\ composed.flags = {48 (* '0' *)}
    /\ composed.width = 5
    /\ composed.length = <<>>
    /\ composed.specifier = 100 (* 'd' *)
    /\ DirArg.i = U64(-42)
    /\ DirOutputIs(<<48, 45, 52, 50>> (* "0-42" *))

\* The characters of out between the literals "ab" and "!".
Between(out) == SubSeq(out, Len(DirPre) + 1, Len(out) - 1)

\* The unpadded rendering: what the engine emits for the composed directive
\* without its width.
Unpadded ==
    Between(Vprintf(handlers, float_support, decimal_point,
                    DirFmt([composed EXCEPT !.width = -1]), call.args).out)

WidthDirective ==
    /\ DirCall
    /\ composed.specifier \in {100 (* 'd' *), 105 (* 'i' *), 117 (* 'u' *), 111 (* 'o' *),
                               120 (* 'x' *), 88 (* 'X' *), 112 (* 'p' *), 102 (* 'f' *)}
    /\ composed.specifier = 102 (* 'f' *) => float_support
    /\ composed.width >= 0

\* The directive's value is negative (p takes a pointer, u / o / x / X an
\* unsigned value).
NegativeValue ==
    IF composed.specifier = 102 (* 'f' *) THEN FloatIsNeg(DirArg.f)
    ELSE StdNegative(composed, DirArg.i)

\* text is the unpadded rendering u in a field of width: max(width, Len(u))
\* characters, spaces on the right with '-', else the padding on the left
\* (spaces without the '0' flag).
InField(text, u, flags, width) ==
    /\ Len(text) = Max(width, Len(u))
    /\ 45 (* '-' *) \in flags => text = u \o StdSpaces(width - Len(u))
    /\ (45 (* '-' *) \notin flags /\ 48 (* '0' *) \notin flags)
           => text = StdSpaces(width - Len(u)) \o u

\* C14: a numeric directive with a width W emits max(W, n) characters for
\* every value, n being the length of the unpadded rendering; the padding is
\* on the left, and spaces on the right with '-'.
C14_WidthIsMinimum ==
    WidthDirective => InField(Between(call.out), Unpadded, composed.flags, composed.width)

\* The same for the values that are not negative.
C14_WidthIsMinimumNonNegative ==
    (WidthDirective /\ ~NegativeValue)
        => InField(Between(call.out), Unpadded, composed.flags, composed.width)

\* "ab%5d!" with -42: four characters for W = 5 and n = 3.
C14_Witness ==
    /\ WidthDirective
    /\ composed = [flags |-> {}, width |-> 5, precision |-> -1, length |-> <<>>,
                   specifier |-> 100 (* 'd' *)]
    /\ DirArg.i = U64(-42)
    /\ Unpadded = <<45, 52, 50>> (* "-42" *)
    /\ Between(call.out) = <<32, 45, 52, 50>> (* " -42" *)

\* The alternate-form prefix an o / x / X directive is to have for value x.
AltPrefix(d, x) ==
    IF 35 (* '#' *) \notin d.flags \/ U64IsZero(x) THEN <<>>
    ELSE IF d.specifier = 111 (* 'o' *) THEN <<48>> (* "0" *)
    ELSE IF d.specifier = 120 (* 'x' *) THEN <<48, 120>> (* "0x" *)
    ELSE <<48, 88>> (* "0X" *)

\* The digits of x in the base and the letter case of the specifier.
AltDigits(d, x) ==
    IF U64IsZero(x) THEN <<48 (* '0' *)>>
    ELSE StdDigits(x, StdBase(d), d.specifier = 88 (* 'X' *))

RECURSIVE StripSpaces(_)
StripSpaces(text) ==
    IF text # <<>> /\ text[Len(text)] = 32 (* ' ' *)
    THEN StripSpaces(SubSeq(text, 1, Len(text) - 1))
    ELSE text

EndsWith(text, tail) ==
    /\ Len(text) >= Len(tail)
    /\ SubSeq(text, Len(text) - Len(tail) + 1, Len(text)) = tail

AltDirective ==
    /\ DirCall
    /\ composed.specifier \in {111 (* 'o' *), 120 (* 'x' *), 88 (* 'X' *)}

\* The directive has nothing but '#', '-' and '0' flags and a length
\* modifier: its text is the prefix and the digits.
AltOnly ==
    /\ composed.flags \subseteq {35 (* '#' *), 45 (* '-' *), 48 (* '0' *)}
    /\ composed.width < 0
    /\ composed.precision < 0

\* C15: with '#', o puts "0" and x / X put "0x" / "0X" in front of the
\* digits exactly when the value is not zero; for the value 0 and without '#'
\* there is no prefix; the case of the hex digits follows the specifier.
C15_AlternateFormPrefix ==
    AltDirective
        => /\ EndsWith(StripSpaces(Between(call.out)),
                       AltPrefix(composed, StdValue(composed, DirArg.i))
                           \o AltDigits(composed, StdValue(composed, DirArg.i)))
           /\ AltOnly => Between(call.out)
                             = AltPrefix(composed, StdValue(composed, DirArg.i))
                                   \o AltDigits(composed, StdValue(composed, DirArg.i))

\* "%#x" with 0xABC gives "0xabc".
C15_Witness ==
    /\ AltDirective
    /\ composed = [flags |-> {35 (* '#' *)}, width |-> -1, precision |-> -1,
                   length |-> <<>>, specifier |-> 120 (* 'x' *)]
    /\ DirArg.i = U64(2748)
    /\ Between(call.out) = <<48, 120, 97, 98, 99>> (* "0xabc" *)

\* "%#X" with 0xABC gives "0XABC", "%#o" with 511 gives "0777", "%#x" with 0
\* gives "0".
C15_Examples ==
    AltDirective /\ AltOnly /\ composed.flags = {35 (* '#' *)} /\ composed.length = <<>>
        => /\ (composed.specifier = 88 (* 'X' *) /\ DirArg.i = U64(2748))
                  => Between(call.out) = <<48, 88, 65, 66, 67>> (* "0XABC" *)
           /\ (composed.specifier = 111 (* 'o' *) /\ DirArg.i = U64(511))
                  => Between(call.out) = <<48, 55, 55, 55>> (* "0777" *)
           /\ DirArg.i = U64(0) => Between(call.out) = <<48>> (* "0" *)

StringDirective ==
    /\ DirCall
    /\ composed.specifier = 115 (* 's' *)

\* The string a %s directive renders: "(null)" for a null argument.
StringText(a) == IF a.snull THEN <<40, 110, 117, 108, 108, 41>> (* "(null)" *) ELSE a.s

\* The first L = min(len(s), P) characters of s, all of s without a precision.
Truncated(str, precision) ==
    IF precision >= 0 /\ precision < Len(str) THEN SubSeq(str, 1, precision) ELSE str

\* C16: %s emits the first L = min(len(s), P) characters of the string
\* ("(null)" for a null argument), padded with spaces to max(W, L)
\* characters, on the left unless '-' is set, then on the right.
C16_StringPrecisionAndWidth ==
    StringDirective
        => Between(call.out)
             = IF 45 (* '-' *) \in composed.flags
               THEN Truncated(StringText(DirArg), composed.precision)
                        \o StdSpaces(composed.width
                                     - Len(Truncated(StringText(DirArg), composed.precision)))
               ELSE StdSpaces(composed.width
                              - Len(Truncated(StringText(DirArg), composed.precision)))
                        \o Truncated(StringText(DirArg), composed.precision)

\* "%-5.3s" with "World" gives "Wor  ".
C16_Witness ==
    /\ StringDirective
    /\ composed.flags = {45 (* '-' *)}
    /\ composed.width = 5
    /\ composed.precision = 3
    /\ DirArg.s = World
    /\ ~DirArg.snull
    /\ Between(call.out) = <<87, 111, 114, 32, 32>> (* "Wor  " *)

\* 'K' is neither built-in nor, under SpecDir, registered.
UnknownDirective ==
    /\ DirCall
    /\ composed.specifier = 75 (* 'K' *)
    /\ FindHandler(handlers, 75 (* 'K' *)) = NULL

\* C17: a directive whose specifier is neither built-in nor registered is
\* emitted as '%' and its whole text (flags, width, precision, length
\* modifier, specifier) verbatim; no argument is consumed and the rest of the
\* string follows.
C17_UnknownEchoedVerbatim ==
    UnknownDirective
        => /\ DirOutputIs(<<37 (* '%' *)>> \o ModifierText(composed) \o <<75 (* 'K' *)>>)
           /\ call.ap = 1

\* The same for the directive without flags, width, precision and length
\* modifier: "%K" gives "%K".
C17_BareUnknownEchoed ==
    (UnknownDirective /\ ModifierText(composed) = <<>>)
        => /\ DirOutputIs(<<37 (* '%' *), 75 (* 'K' *)>>)
           /\ call.ap = 1

\* What the engine does with every unknown directive: '%' and the specifier.
C17_UnknownEchoedShort ==
    UnknownDirective
        => /\ DirOutputIs(<<37 (* '%' *), 75 (* 'K' *)>>)
           /\ call.ap = 1

\* "ab%-5.3lK!" gives "ab%K!".
C17_Witness ==
    /\ UnknownDirective
    /\ call.fmt = <<97, 98, 37, 45, 53, 46, 51, 108, 75, 33>> (* "ab%-5.3lK!" *)
    /\ call.out = <<97, 98, 37, 75, 33>> (* "ab%K!" *)

\* The format string ends inside the directive.
UnfinishedDirective ==
    /\ DirCall
    /\ composed.specifier = NUL

\* The call emitted "ab", '%' and the modifier characters, counted them and
\* stopped at the terminator of the format string.
UnfinishedEchoed ==
    /\ call.out = DirPre \o <<37 (* '%' *)>> \o ModifierText(composed)
    /\ call.ret = Len(DirPre) + 1 + Len(ModifierText(composed))
    /\ call.pos = Len(call.fmt) + 1

\* C18: a format string that ends after '%' and zero or more flag, width,
\* precision or length-modifier characters makes the engine emit '%' and
\* exactly those characters, count them, and return normally without reading
\* past the end of the string.
C18_UnfinishedEchoed == UnfinishedDirective => UnfinishedEchoed

\* The same with at least one character after the '%'.
C18_UnfinishedEchoedAfterModifier ==
    (UnfinishedDirective /\ ModifierText(composed) # <<>>) => UnfinishedEchoed

\* "ab%" gives "ab" and returns 2.
C18_Witness ==
    /\ UnfinishedDirective
    /\ call.fmt = <<97, 98, 37>> (* "ab%" *)
    /\ call.out = <<97, 98>> (* "ab" *)
    /\ call.ret = 2
    /\ call.pos = Len(call.fmt) + 1

\* A %n directive given a pointer that is not null.
CountDirective ==
    /\ DirCall
    /\ composed.specifier = 110 (* 'n' *)
    /\ DirArg.i # U64(NULL)

\* C19: %n stores into the pointed-to integer the number of characters the
\* call has emitted before the directive, and emits nothing itself.
C19_StoresEmittedSoFar ==
    CountDirective
        => /\ call.stores = <<[ptr |-> DirArg.i, value |-> Len(DirPre)]>>
           /\ call.out = DirPre \o <<33 (* '!' *)>>

\* What the engine stores: 0, the count of the directive itself.
C19_StoresZero ==
    CountDirective
        => /\ call.stores = <<[ptr |-> DirArg.i, value |-> 0]>>
           /\ call.out = DirPre \o <<33 (* '!' *)>>

\* "ab%n!": 0 is stored after two characters were emitted.
C19_Witness ==
    /\ CountDirective
    /\ call.fmt = <<97, 98, 37, 110, 33>> (* "ab%n!" *)
    /\ call.out = <<97, 98, 33>> (* "ab!" *)
    /\ call.ret = 3
    /\ call.stores = <<[ptr |-> DirArg.i, value |-> 0]>>

FloatDirective ==
    /\ DirCall
    /\ composed.specifier \in {102 (* 'f' *), 70 (* 'F' *)}

\* With the float support off the directive is '%' and the specifier: two
\* characters, counted, and no error.
FloatEchoed ==
    /\ DirOutputIs(<<37 (* '%' *), composed.specifier>>)
    /\ call.ret = Len(DirPre) + 2 + 1

\* With the float support on the directive is the number: the text up to the
\* right padding ends with the digits u_ftoa gives the value.
FloatRendered ==
    EndsWith(StripSpaces(Between(call.out)),
             u_ftoa(DirArg.f, composed.precision, decimal_point))

FloatSupportState ==
    /\ call.op = "u_set_float_support" => float_support = call.enabled
    /\ (FloatDirective /\ ~float_support) => FloatEchoed
    /\ (FloatDirective /\ float_support) => FloatRendered

\* Only u_set_float_support changes the switch.
FloatSupportStep ==
    float_support' # float_support => call'.op = "u_set_float_support"

\* C20: from u_set_float_support(false) until the support is enabled again,
\* every %f / %F directive, whatever its flags, width and precision, emits
\* '%' and the specifier, adds 2 to the count and raises no error; once
\* enabled again, the directive renders the number.
C20_FloatSupportSwitch == []FloatSupportState /\ [][FloatSupportStep]_vars

\* "ab%+012.3f!" with the float support off gives "ab%f!" and returns 5.
C20_Witness ==
    /\ FloatDirective
    /\ ~float_support
    /\ composed = [flags |-> {43 (* '+' *), 48 (* '0' *)}, width |-> 12, precision |-> 3,
                   length |-> <<>>, specifier |-> 102 (* 'f' *)]
    /\ call.out = <<97, 98, 37, 102, 33>> (* "ab%f!" *)
    /\ call.ret = 5

\* "ab%.3f!" with 3.14159 and the float support on gives "ab3.142!".
C20_RendersWhenEnabled ==
    (FloatDirective /\ float_support /\ composed.flags = {} /\ composed.width < 0
         /\ composed.precision = 3 /\ DirArg.f.int = U64(3))
        => Between(call.out) = <<51, 46, 49, 52, 50>> (* "3.142" *)

\* ------------------------------------------------------------------------
\* Floating point (SpecFloat, SpecConv)
\* ------------------------------------------------------------------------
\* text without its leading and trailing spaces.
RECURSIVE StripLeft(_)
StripLeft(text) ==
    IF text # <<>> /\ text[1] = 32 (* ' ' *) THEN StripLeft(Tail(text)) ELSE text

\* A %f / %F directive, the float support being on, given NaN or an infinity.
SpecialFloatDirective ==
    /\ FloatDirective
    /\ float_support
    /\ DirArg.f.kind \in {"nan", "inf"}

\* The text of a special value.
SpecialText(f) ==
    IF f.kind = "nan" THEN <<110, 97, 110>> (* "nan" *)
    ELSE IF f.neg THEN <<45, 105, 110, 102>> (* "-inf" *)
    ELSE <<105, 110, 102>> (* "inf" *)

\* C21: %f / %F given NaN, +Infinity or -Infinity emits, apart from space
\* padding, exactly "nan", "inf" or "-inf", for every precision and every
\* combination of '+', ' ' and '0': no sign and no zero digits are added.
C21_SpecialValuesPlain ==
    SpecialFloatDirective
        => StripLeft(StripSpaces(Between(call.out))) = SpecialText(DirArg.f)

\* The same for the directives without '+', ' ' and '0' whose precision is
\* not above the length of the text.
C21_SpecialValuesUnflagged ==
    (SpecialFloatDirective
         /\ composed.flags \cap {43 (* '+' *), 32 (* ' ' *), 48 (* '0' *)} = {}
         /\ composed.precision <= 3)
        => StripLeft(StripSpaces(Between(call.out))) = SpecialText(DirArg.f)

\* "ab%.10f!" with NaN gives "ab0000000nan!".
C21_Witness ==
    /\ SpecialFloatDirective
    /\ composed = [flags |-> {}, width |-> -1, precision |-> 10, length |-> <<>>,
                   specifier |-> 102 (* 'f' *)]
    /\ DirArg.f = NaN
    /\ Between(call.out) = <<48, 48, 48, 48, 48, 48, 48, 110, 97, 110>> (* "0000000nan" *)

FtoaCall == call.op = "u_ftoa"

\* The decimal digits of an unsigned 64-bit value.
DecimalDigits(x) == IF U64IsZero(x) THEN <<48 (* '0' *)>> ELSE StdDigits(x, 10, FALSE)

\* The value is below zero.
BelowZero(value) ==
    value.neg /\ (~U64IsZero(value.int) \/ \E k \in 1..Len(value.frac) : value.frac[k] # 0)

\* The sign and the integer part of the rendering of a finite value.
IntegerHead(value) ==
    (IF BelowZero(value) THEN <<45 (* '-' *)>> ELSE <<>>) \o DecimalDigits(value.int)

\* The fractional digits asked for: 6 for a negative precision.
Requested(precision) == IF precision < 0 THEN 6 ELSE precision

\* C22: for every finite value whose integer part fits an int64_t and every
\* precision, negative, zero or far above the buffer size, u_ftoa writes
\* cells 0..UPRINTF_BUFFER_SIZE-1 only, terminator included; the sign and the
\* integer part are kept, and the fractional digits that do not fit are
\* dropped from the end.
C22_FtoaStaysInBuffer ==
    FtoaCall
        => /\ call.written \subseteq 0..(UPRINTF_BUFFER_SIZE - 1)
           /\ Len(call.str) + 1 = Cardinality(call.written)
           /\ SubSeq(call.str, 1, Len(IntegerHead(call.value))) = IntegerHead(call.value)
           /\ Len(call.str) <= Len(IntegerHead(call.value)) + 1 + Requested(call.precision)
           /\ Requested(call.precision) > 0
                  => /\ Len(call.str) >= Len(IntegerHead(call.value)) + 2
                     /\ call.str[Len(IntegerHead(call.value)) + 1] = decimal_point

\* -9223372036854775807.999 with precision 100: the 20 characters of the
\* sign and the integer part, the point and 10 digits fill cells 0..30, the
\* terminator goes to cell 31.
C22_Witness ==
    /\ FtoaCall
    /\ call.value = [kind |-> "fin", neg |-> TRUE, int |-> Int64Max, frac |-> <<9, 9, 9>>]
    /\ call.precision = 100
    /\ Len(call.str) = UPRINTF_BUFFER_SIZE - 1
    /\ call.written = 0..(UPRINTF_BUFFER_SIZE - 1)
    /\ SubSeq(call.str, 1, 21)
         = <<45, 57, 50, 50, 51, 51, 55, 50, 48, 51, 54, 56, 53, 52, 55, 55, 53, 56, 48, 55,
             46>> (* "-9223372036854775807." *)

\* The decimal rendering of a finite value rounded half-up (on the
\* magnitude) to p fractional digits.  RoundsUp: digit p + 1 is 5 or more;
\* AllNines: the first p digits are all 9, so that rounding up carries into
\* the integer part.
FractionAt(frac, k) == IF k >= 1 /\ k <= Len(frac) THEN frac[k] ELSE 0

RoundsUp(frac, p) == FractionAt(frac, p + 1) >= 5

AllNinesFrom(frac, p, k) == \A j \in k..p : FractionAt(frac, j) = 9

CarriesToInteger(frac, p) == RoundsUp(frac, p) /\ AllNinesFrom(frac, p, 1)

\* Digit k of the rounded fraction: one more when the digits after it are
\* all 9 and the fraction rounds up.
RoundedAt(frac, p, k) ==
    (FractionAt(frac, k)
        + (IF RoundsUp(frac, p) /\ AllNinesFrom(frac, p, k + 1) THEN 1 ELSE 0)) % 10

\* x + 1 on 64 bits.
PlusOne(x) ==
    LET s4 == x[4] + 1
        s3 == x[3] + (s4 \div Limb)
        s2 == x[2] + (s3 \div Limb)
        s1 == x[1] + (s2 \div Limb)
    IN  <<s1 % Limb, s2 % Limb, s3 % Limb, s4 % Limb>>

HalfUp(value, p, point) ==
    (IF BelowZero(value) THEN <<45 (* '-' *)>> ELSE <<>>)
        \o DecimalDigits(IF CarriesToInteger(value.frac, p) THEN PlusOne(value.int)
                         ELSE value.int)
        \o (IF p > 0 THEN <<point>> \o [k \in 1..p |-> 48 (* '0' *) + RoundedAt(value.frac, p, k)]
            ELSE <<>>)

\* A call of u_ftoa with a precision from 0 to the cap whose rendering fits
\* the buffer.
FtoaInCap ==
    /\ FtoaCall
    /\ call.precision >= 0
    /\ call.precision <= UPRINTF_BUFFER_SIZE - 16
    /\ Len(HalfUp(call.value, call.precision, decimal_point)) < UPRINTF_BUFFER_SIZE

\* C23: for every fixed-point decimal and every precision p >= 0 within the
\* cap, u_ftoa yields the value rounded half-up to p fractional digits: a
\* fraction that rounds up to 1 carries into the integer part, precision 0
\* rounds to the nearest integer, and every character is a decimal digit,
\* the decimal point or a leading '-'.
C23_FtoaRoundsHalfUp ==
    FtoaInCap
        => /\ call.str = HalfUp(call.value, call.precision, decimal_point)
           /\ \A k \in 1..Len(call.str) :
                 \/ IsDigit(call.str[k])
                 \/ call.str[k] = decimal_point
                 \/ k = 1 /\ call.str[k] = 45 (* '-' *)

\* The same when the rounding does not reach the integer part: a precision
\* above 0 and no carry out of the fraction.
C23_FtoaRoundsFraction ==
    (FtoaInCap /\ call.precision > 0
         /\ ~CarriesToInteger(call.value.frac, call.precision))
        => call.str = HalfUp(call.value, call.precision, decimal_point)

\* What precision 0 does: the integer part as it is, whatever the fraction.
C23_FtoaTruncatesAtZero ==
    (FtoaInCap /\ call.precision = 0) => call.str = IntegerHead(call.value)

\* 0.99 with precision 1: "0.:" where the value rounds to "1.0".
C23_Witness ==
    /\ FtoaInCap
    /\ call.value = [kind |-> "fin", neg |-> FALSE, int |-> U64(0), frac |-> <<9, 9>>]
    /\ call.precision = 1
    /\ HalfUp(call.value, call.precision, decimal_point) = <<49, 46, 48>> (* "1.0" *)
    /\ call.str = <<48, 46, 58>> (* "0.:" *)

\* ------------------------------------------------------------------------
\* The extended calls (SpecEx)
\* ------------------------------------------------------------------------
\* An extended call made while no stream processor and no output hook is
\* registered.
PlainExCall ==
    /\ call.op \in {"u_printf_ex", "u_vprintf_ex"}
    /\ hooks = <<>>
    /\ processors = <<>>

\* What u_vprintf does with the arguments of the call in progress.
AsVprintf == VprintfCall(call.output_cb, call.fmt_null, call.fmt, call.args)

\* The call gave the caller's sink the characters and returned the count r
\* stands for.
SameCharactersAndCount(r) ==
    /\ ~call.crashed
    /\ call.out = r.out
    /\ call.ret = r.ret

\* C24: with no stream processor and no output hook registered,
\* u_printf_ex / u_vprintf_ex (output_cb, ctx, fmt, args) behave like
\* u_vprintf with the same arguments: output_cb gets the same characters in
\* the same order, each time with the caller's ctx as its context, and the
\* same count is returned.
C24_ExLikeVprintf ==
    PlainExCall
        => /\ SameCharactersAndCount(AsVprintf)
           /\ \A k \in 1..Len(call.calls) :
                 /\ call.calls[k].sink = call.output_cb
                 /\ call.calls[k].sink_ctx = call.ctx

\* The same for the characters and the count alone, the sink not being null.
C24_ExSameCharactersAndCount ==
    (PlainExCall /\ call.output_cb # NULL) => SameCharactersAndCount(AsVprintf)

\* u_printf_ex(sink, ctx, "Hello, %s!", "World") with ctx at address 2: the
\* sink is called with its own address 1 as the context.
C24_Witness ==
    /\ PlainExCall
    /\ call.op = "u_printf_ex"
    /\ call.output_cb = 1
    /\ call.ctx = 2
    /\ call.fmt = Hello
    /\ call.out = <<72, 101, 108, 108, 111, 44, 32, 87, 111, 114, 108, 100, 33>> (* "Hello, World!" *)
    /\ call.ret = 13
    /\ \A k \in 1..Len(call.calls) : call.calls[k].sink_ctx = 1

\* ------------------------------------------------------------------------
\* The default sink (SpecSimple)
\* ------------------------------------------------------------------------
SimpleOp == call.op = "u_printf_simple"

\* The default sink and its context are those of the last
\* u_set_default_output call: the call sets both, nothing else changes them.
DefaultSinkState ==
    call.op = "u_set_default_output"
        => default_output_cb = call.output_cb /\ default_ctx = call.ctx

DefaultSinkStep ==
    (default_output_cb' # default_output_cb \/ default_ctx' # default_ctx)
        => call'.op = "u_set_default_output"

\* u_printf_simple fails, emitting nothing, exactly without a default sink
\* or a format string; otherwise the default sink gets the characters of
\* u_vprintf with the default context, and their count is returned.
SimpleState ==
    SimpleOp
        => IF default_output_cb = NULL \/ call.fmt_null
           THEN call.ret < 0 /\ call.out = <<>>
           ELSE /\ call.ret >= 0
                /\ call.ret = Len(call.out)
                /\ call.out = Vprintf(handlers, float_support, decimal_point,
                                      call.fmt, call.args).out
                /\ call.sink = default_output_cb
                /\ call.sink_ctx = default_ctx

\* C26: after any sequence of u_set_default_output calls, u_printf_simple
\* returns a negative value and emits nothing exactly when no default sink
\* was ever set or the sink set last is null (or the format is null);
\* otherwise it emits through the sink set last, with the context set in that
\* same call, and returns the character count.
C26_SimpleUsesLastDefault ==
    [](DefaultSinkState /\ SimpleState) /\ [][DefaultSinkStep]_vars

\* "Hello, %s!" through sink 4 with context 3, set after other sinks.
C26_Witness ==
    /\ SimpleOp
    /\ default_output_cb = 4
    /\ default_ctx = 3
    /\ call.sink = 4
    /\ call.sink_ctx = 3
    /\ call.fmt = Hello
    /\ call.ret = 13

\* ------------------------------------------------------------------------
\* String helpers (SpecStr, SpecStrLive)
\* ------------------------------------------------------------------------
RECURSIVE Matches(_, _)
\* The whole of str matches pattern: '*' stands for any sequence of
\* characters, the empty one included, '?' for exactly one character.
Matches(str, pattern) ==
    IF pattern = <<>>
    THEN str = <<>>
    ELSE IF Head(pattern) = 42 (* '*' *)
         THEN \E k \in 1..(Len(str) + 1) : Matches(StrFrom(str, k), Tail(pattern))
         ELSE /\ str # <<>>
              /\ Head(pattern) = 63 (* '?' *) \/ Head(pattern) = Head(str)
              /\ Matches(Tail(str), Tail(pattern))

MatchCall == call.op = "u_str_match_pattern"

\* A '*' directly followed by another '*'.
StarRun(pattern) ==
    \E i \in 1..(Len(pattern) - 1) : pattern[i] = 42 /\ pattern[i + 1] = 42

\* C25: u_str_match_pattern(str, pattern) is true exactly when the whole of
\* str matches pattern, consecutive '*' and the empty str included.
C25_MatchesWholeString ==
    MatchCall => (call.ret <=> Matches(call.str, call.pattern))

\* C25 for the patterns without two '*' in a row.
C25_MatchesWithoutStarRun ==
    (MatchCall /\ ~StarRun(call.pattern))
        => (call.ret <=> Matches(call.str, call.pattern))

\* "a" against "a**": the pattern matches, the function says no.
C25_Witness ==
    /\ MatchCall
    /\ call.str = <<97>>
    /\ call.pattern = <<97, 42, 42>>
    /\ call.ret = FALSE

ReplaceCall == call.op = "u_str_replace" /\ ~call.str_null /\ ~call.find_null

\* str at its start begins with find.
StartsWith(str, find) ==
    Len(find) <= Len(str) /\ SubSeq(str, 1, Len(find)) = find

RECURSIVE Replaced(_, _, _)
\* str with the occurrences of a non-empty find replaced, left to right,
\* without overlap.
Replaced(str, find, replace) ==
    IF str = <<>>
    THEN <<>>
    ELSE IF StartsWith(str, find)
         THEN replace \o Replaced(StrFrom(str, Len(find) + 1), find, replace)
         ELSE <<Head(str)>> \o Replaced(Tail(str), find, replace)

\* What a finished u_str_replace with its buffer allocated has produced.
ReplaceResult ==
    (ReplaceCall /\ call.pc = "done" /\ ~call.ret_null /\ call.find # <<>>)
        => /\ call.result = Replaced(call.str, call.find, call.replace)
           /\ call.written \subseteq 0..(call.new_len - 1)

\* Every write of the build loop lands in the buffer.
ReplaceInBuffer ==
    (ReplaceCall /\ call.pc = "build") => call.written \subseteq 0..(call.new_len - 1)

\* C30: u_str_replace(str, find, replace) terminates for all non-null
\* strings, the empty find included, and its result is str with every
\* non-overlapping occurrence of find, left to right, replaced, written
\* within the buffer sized by the counting pass.
C30_ReplaceTerminates ==
    /\ [](ReplaceResult /\ ReplaceInBuffer)
    /\ ReplaceCall ~> (ReplaceCall /\ call.pc = "done")

\* C30 for a non-empty find.
C30_ReplaceNonEmptyFind ==
    /\ [](ReplaceResult /\ ReplaceInBuffer)
    /\ (ReplaceCall /\ call.find # <<>>) ~> (ReplaceCall /\ call.pc = "done")

\* The counting loop on "ab" with an empty find: strstr keeps finding the
\* empty string at the same place, pos never moves.
C30_Witness ==
    /\ ReplaceCall
    /\ call.str = <<97, 98>>
    /\ call.find = <<>>
    /\ call.pc = "count"
    /\ call.count >= 3
    /\ call.pos = 1

\* "aab" with "a" replaced by "bab" is "babbabb", 8 bytes with the terminator.
C30_ReplacedWitness ==
    /\ ReplaceCall
    /\ call.pc = "done"
    /\ call.str = <<97, 97, 98>>
    /\ call.find = <<97>>
    /\ call.replace = <<98, 97, 98>>
    /\ call.result = <<98, 97, 98, 98, 97, 98, 98>>
    /\ call.new_len = 8
    /\ call.written = 0..7

\* ------------------------------------------------------------------------
\* u_itoa (SpecConv)
\* ------------------------------------------------------------------------
ItoaCall == call.op = "u_itoa" /\ call.base >= 2 /\ call.base <= 36

\* The digits of an unsigned 64-bit value in a base, "0" for zero.
DigitsIn(x, base, upper) ==
    IF U64IsZero(x) THEN <<48 (* '0' *)>> ELSE StdDigits(x, base, upper)

\* The rendering of a 64-bit value: signed in base 10, else the unsigned
\* two's-complement value.
ItoaText(value, base, upper) ==
    IF base = 10 /\ U64IsNeg(value)
    THEN <<45 (* '-' *)>> \o DigitsIn(U64Neg(value), 10, upper)
    ELSE DigitsIn(value, base, upper)

\* C27: u_itoa in base 10 renders every int64 value, the minimum -2^63
\* included, as '-' and the digits of the magnitude when negative and as the
\* plain digits otherwise; in any other valid base it renders the unsigned
\* 64-bit two's-complement value, without '-'.
C27_ItoaRendersEveryValue ==
    ItoaCall
        => /\ ~call.trapped
           /\ call.str = ItoaText(call.value, call.base, call.uppercase)

\* C27 for every value but -2^63 in base 10.
C27_ItoaRendersOthers ==
    (ItoaCall /\ ~(call.base = 10 /\ call.value = Int64Min))
        => /\ ~call.trapped
           /\ call.str = ItoaText(call.value, call.base, call.uppercase)

\* u_itoa(-2^63, buf, 10): "value = -value" overflows; the call stops after
\* the '-'.
C27_Witness ==
    /\ ItoaCall
    /\ call.base = 10
    /\ call.value = Int64Min
    /\ call.trapped
    /\ call.str = <<45>>

\* -42 in base 10 is "-42", in base 16 "ffffffffffffffd6".
C27_Examples ==
    (ItoaCall /\ call.value = U64(-42) /\ ~call.uppercase)
        => /\ call.base = 10 => call.str = <<45, 52, 50>>
           /\ call.base = 16
                 => call.str = <<102, 102, 102, 102, 102, 102, 102, 102,
                                 102, 102, 102, 102, 102, 102, 100, 54>>

\* ------------------------------------------------------------------------
\* Handlers and the cursors (Spec)
\* ------------------------------------------------------------------------
\* What the engine produces from the format text and the arguments a handler
\* call inv left behind.
AfterHandler(inv) ==
    Vprintf(handlers, float_support, decimal_point,
            StrFrom(call.fmt, inv.pos + HandlerEat(inv.handler, call.fmt, inv.pos)),
            StrFrom(call.args, inv.ap + HandlerTake(inv.handler)))

\* A call whose handlers all succeeded.
HandledCall == NonNullCall /\ call.invoked # <<>> /\ ~NegativeHandler

C28_StarWitness ==
    /\ HandledCall
    /\ call.fmt = <<37, 42, 46, 42, 75, 37, 100>>
    /\ call.invoked[1].handler = 3
    /\ call.invoked[1].ap = 3
    /\ call.invoked[1].pos = 6
    /\ call.out = <<84, 100>> (* "Td" *)
    /\ call.ap = 4

\* ------------------------------------------------------------------------
\* Arguments consumed (SpecDir)
\* ------------------------------------------------------------------------
ValueSpecifiers ==
    {100 (* 'd' *), 105 (* 'i' *), 117 (* 'u' *), 111 (* 'o' *), 120 (* 'x' *),
     88 (* 'X' *), 112 (* 'p' *), 102 (* 'f' *), 70 (* 'F' *), 115 (* 's' *),
     99 (* 'c' *), 110 (* 'n' *)}

\* A call with one built-in conversion other than %%.
ValueDirective == DirCall /\ composed.specifier \in ValueSpecifiers

\* A call with a two-conversion format.
TwoCall(fmt) == call.op = "u_vprintf" /\ composed = NoDirective /\ call.fmt = fmt

\* The output ends with a space or '|' and the decimal text of argument k.
RendersLast(sep, k) ==
    EndsWith(call.out, <<sep>> \o ItoaText(call.args[k].i, 10, FALSE))

\* C29: every built-in conversion other than %% consumes exactly one value
\* argument (and one more for each '*'), whatever the process-wide
\* configuration; in "%f %d" the %d renders the second argument with float
\* support enabled and with it disabled.
C29_OneArgumentEach ==
    /\ ValueDirective => call.ap = 2
    /\ TwoCall(StarsThenInt) => call.ap = 5 /\ RendersLast(124 (* '|' *), 4)
    /\ TwoCall(FloatThenInt) => call.ap = 3 /\ RendersLast(32 (* ' ' *), 2)

\* C29 with float support enabled, and what happens with it disabled: %f
\* consumes nothing and the %d of "%f %d" renders the first argument.
C29_OneArgumentUnlessFloatOff ==
    /\ (ValueDirective /\ (float_support \/ composed.specifier \notin {102, 70}))
          => call.ap = 2
    /\ (ValueDirective /\ ~float_support /\ composed.specifier \in {102, 70})
          => call.ap = 1
    /\ TwoCall(StarsThenInt) => call.ap = 5 /\ RendersLast(124 (* '|' *), 4)
    /\ (TwoCall(FloatThenInt) /\ float_support)
          => call.ap = 3 /\ RendersLast(32 (* ' ' *), 2)
    /\ (TwoCall(FloatThenInt) /\ ~float_support)
          => /\ call.ap = 2
             /\ call.out = <<37, 102, 32>> \o ItoaText(call.args[1].i, 10, FALSE)

\* "%f %d" with (3.14159, 2748) and float support disabled: "%f 42", the
\* integer reading of the first argument.
C29_Witness ==
    /\ TwoCall(FloatThenInt)
    /\ ~float_support
    /\ call.args[1].i = U64(42)
    /\ call.args[2].i = U64(2748)
    /\ call.out = <<37, 102, 32, 52, 50>> (* "%f 42" *)
    /\ call.ap = 2

\* The same call with float support enabled ends in " 2748".
C29_EnabledWitness ==
    /\ TwoCall(FloatThenInt)
    /\ float_support
    /\ call.args[1].i = U64(42)
    /\ call.args[2].i = U64(2748)
    /\ EndsWith(call.out, <<32, 50, 55, 52, 56>>)
    /\ call.ap = 3

====
